---- MODULE Spec2Model ----
(***************************************************************************)
(* Model of the FPGA device driver of labscript_devices/FPGADevice:        *)
(* the analog quantizer (util.py), the worker's smart-programming cache    *)
(* (FPGADevice.py, FPGADeviceWorker) and the framing calls of the          *)
(* FPGAInterface (fpga_api.py) the worker drives.                          *)
(*                                                                         *)
(* Numbers.  Voltages handed to the program are integers counted in half   *)
(* volts (so that the DAC ranges -2.5 V and 7.5 V are integers).  The      *)
(* quantizer computes with step = (range_max - range_min) / 65535, so the  *)
(* voltages it returns are multiples of 1/65535 half volt ("fine" units):  *)
(* k * step is k * (range_max - range_min) fine units.  A returned voltage *)
(* is written <<q, r>>, meaning q + r / 65535 half volts with              *)
(* 0 <= r < 65535, so that equal voltages are equal pairs.  The floating   *)
(* point arithmetic of the code is modelled as exact rational arithmetic.  *)
(*                                                                         *)
(* Granularity.  The specifications of the worker (Spec, SpecManual,       *)
(* SpecWaits) follow the interface frame by frame: `enqueued` and          *)
(* `written` hold frames.  The specification of the interface              *)
(* (SpecInterface) follows it byte by byte: `transfers` holds every        *)
(* ftdi.write_data call of the last interface call with its bytes.         *)
(***************************************************************************)
EXTENDS Integers, Sequences, FiniteSets, TLC

VARIABLES
    smart_cache,        \* FPGADeviceWorker.smart_cache: clocks, data, output_values
    analog_properties,  \* FPGADeviceWorker.analog_properties: output -> <<min, max>>
    write_buffer,       \* FPGAInterface.write_buffer: frames enqueued, not yet written
    written,            \* frames ftdi.write_data accepted during the last handler
    enqueued,           \* frames the last handler passed to the interface
    call,               \* the last handler invocation: handler name and arguments
    cached_before,      \* the outputs that had a cache entry when it started
    result,             \* what the last handler returned, or that it raised
    quant,              \* last application of quantize_analog_value
    transfers,          \* the ftdi.write_data calls of the last interface call
    tab,                \* FPGADeviceTab: its status timeout, queued state functions,
                        \* the notify queue, and the device it polls
    script,             \* the objects of an experiment script while it compiles:
                        \* an OutputIntermediateDevice and the waits of the FPGADevice
    stack               \* the calls of FPGAInterface under way, the innermost last

vars == <<smart_cache, analog_properties, write_buffer, written, enqueued,
          call, cached_before, result, quant, transfers, tab, script, stack>>

(***************************************************************************)
(* Bounds of the model.                                                    *)
(***************************************************************************)
\* requested voltages range over -MaxHalfVolt .. MaxHalfVolt half volts
MaxHalfVolt == 22
\* an analog sample array holds 1 .. MaxSamples samples
MaxSamples == 2
\* write_buffer holds at most MaxBuffered frames that wait for a flush
MaxBuffered == 2
\* send_buffer is called with a chunk size of 1 .. MaxChunk bytes, or none
MaxChunk == 4

(***************************************************************************)
(* Program constants.                                                      *)
(***************************************************************************)
\* 2.0**16 - 1, the largest 16-bit DAC code
DACMax == 65535

\* FPGADeviceTab.DAC_ranges, in half volts
DAC_ranges ==
    << <<0, 10>>, <<0, 20>>, <<-10, 10>>, <<-20, 20>>, <<-5, 5>>, <<-5, 15>> >>

\* FPGAModes
FPGAModes ==
    [realtime |-> 0, pseudoclock |-> 1, data |-> 2, parameter |-> 3,
     trigger |-> 4, repeat |-> 5, pc_wait |-> 6, digital_wait |-> 7,
     analog_wait |-> 8, wait_times |-> 9, output_range |-> 10, reset |-> 11]

(***************************************************************************)
(* Arithmetic helpers.                                                     *)
(***************************************************************************)
\* the voltage of h half volts
Fine(h) == <<h, 0>>

\* the voltage of n fine units
Voltage(n) == <<n \div DACMax, n % DACMax>>

\* int(x) of Python for the rational n / d, d > 0: truncation towards zero
IntTrunc(n, d) == IF n >= 0 THEN n \div d ELSE -((-n) \div d)

\* round(x) of Python 2 for the rational n / d, d > 0: half away from zero
PyRound(n, d) ==
    IF n >= 0 THEN (2 * n + d) \div (2 * d) ELSE -((-2 * n + d) \div (2 * d))

(***************************************************************************)
(* quantize_analog_value(value, range_min, range_max) of util.py.          *)
(* The result is the returned pair in the order of the return statement.   *)
(* Every caller unpacks it as (quantized value, DAC code).  Voltages of    *)
(* the normal branch are given in fine units; the two early returns hand   *)
(* back plain Python ints, which a caller that reads the first element as  *)
(* a voltage takes for volts.                                              *)
(***************************************************************************)
\* variant: the code is computed from value instead of value - range_min
quantize_analog_value_NoOffset(value, range_min, range_max) ==
    LET width == range_max - range_min
    IN  IF value > range_max THEN <<DACMax, IntTrunc(width, 2)>>
        ELSE IF value < range_min THEN <<0, 0>>
        ELSE <<PyRound(value * DACMax, width) * width,
               PyRound(value * DACMax, width)>>

quantize_analog_value(value, range_min, range_max) ==
    LET width == range_max - range_min   \* step = width / 65535 half volts
    IN  IF value > range_max
          THEN \* return int(2.0**16 - 1), int(step * (2.0**16 - 1))
               \* step * 65535 is the width in volts: width half volts / 2
               <<DACMax, IntTrunc(width, 2)>>
        ELSE IF value < range_min
          THEN <<0, 0>>
        ELSE \* DAC_data = int(round((value - range_min) / step))
             \* quantized = round(value / step) * step
             <<PyRound(value * DACMax, width) * width,
               PyRound((value - range_min) * DACMax, width)>>

\* the caller's reading of the pair: quantized_value, DAC_data = quantize_...
\* the first element read as a voltage (an int of the early returns is volts)
CoercedOf(value, range_min, range_max) ==
    LET r == quantize_analog_value(value, range_min, range_max)
    IN  IF value > range_max \/ value < range_min
          THEN Fine(2 * r[1])
          ELSE Voltage(r[1])

CodeOf(value, range_min, range_max) ==
    quantize_analog_value(value, range_min, range_max)[2]

\* a call that does not return: with range_max == range_min the step is 0.0,
\* a value above or below the range leaves through an early return, and the
\* value equal to both ends divides by the step in the try block, whose
\* handler catches ValueError only
quantize_analog_value_error(value, range_min, range_max) ==
    IF range_max = range_min /\ value = range_min
      THEN "ZeroDivisionError"
      ELSE "none"


(***************************************************************************)
(* The outputs of the connection table used in the model: one analog and   *)
(* one digital output declared by the user and one analog placeholder      *)
(* that generate_code adds for an unused channel.  Each entry is the       *)
(* 4-tuple OutputConnectionName.decode returns for the output.             *)
(***************************************************************************)
output_conn_names ==
    [ao0 |-> [output_type |-> "analog", board_number |-> 1,
              channel_number |-> 0, group_name |-> "None"],
     ao1 |-> [output_type |-> "analog", board_number |-> 1,
              channel_number |-> 1, group_name |-> "placeholder"],
     do0 |-> [output_type |-> "digital", board_number |-> 1,
              channel_number |-> 8, group_name |-> "None"]]

Outputs == DOMAIN output_conn_names
AnalogOutputs == {o \in Outputs : output_conn_names[o].output_type = "analog"}
DigitalOutputs == {o \in Outputs : output_conn_names[o].output_type = "digital"}
\* initialise_GUI skips placeholders: no widget, no properties, no front panel value
PanelOutputs == {o \in Outputs : output_conn_names[o].group_name # "placeholder"}

\* the order in which the datasets of an h5py group are iterated (by name)
GroupOrder == <<"ao0", "ao1", "do0">>

\* cycle count used for every tick of the model (the cache compares whole ticks)
NClocks == 9

(***************************************************************************)
(* Shot files.  A clock is a sequence of ticks <<field 0, field 1>>:       *)
(* <<n_clocks, toggles>> for a digital output, <<period, reps>> for an     *)
(* analog one.  A digital clock starts with the initial-state tick whose   *)
(* toggles field is the initial level; the tick after it toggles the       *)
(* output once or not at all.  Sample arrays are never empty.              *)
(***************************************************************************)
DigitalClocks ==
    {<< <<NClocks, lvl>>, <<NClocks, toggles>> >> : lvl \in 0..1, toggles \in 0..1}

AnalogClocks == {<< <<NClocks, 0>> >>}

SeqsUpTo(S, n) == UNION {[1..k -> S] : k \in 1..n}

\* a sample array of k samples: `first`, then `rest` k - 1 times
Ramp(first, rest, k) == [i \in 1..k |-> IF i = 1 THEN first ELSE rest]

\* samples of a user output, in half volts: a single sample of 0 or 5, or
\* a longer array that starts at 0 and stays at 0 or steps to 5
UserSamples ==
    {<<0>>, <<5>>} \cup {Ramp(0, v, k) : v \in {0, 5}, k \in 2..MaxSamples}
\* a placeholder output is held constant at 0, for one sample or for two
PlaceholderSamples == {<<0>>, <<0, 0>>}

\* FPGAWait.null_value (np.nan) stands for an absent field of a wait record;
\* the model writes it as a number no present field takes
NaN == -1

\* FPGAWait(): a wait declared without board, channel, value and comparison
PCWait == [board_number |-> NaN, channel_number |-> NaN, value |-> NaN,
           comparison |-> NaN]

\* FPGAWait(board_number=1, channel_number=8, value=1): a digital wait.
\* The value of a wait record is counted in half volts, as the quantizer of
\* send_wait_info takes it: the level 1 is 2
DigitalWait == [board_number |-> 1, channel_number |-> 8, value |-> 2,
                comparison |-> NaN]

\* ord('>'), the comparison of the analog waits of the model
Greater == 62

\* FPGAWait(1, 0, value, '>'): analog waits on the channel of ao0 with a
\* threshold of 1.5 V, of 4 V and of 6 V, in half volts
AnalogWaits ==
    {[board_number |-> 1, channel_number |-> 0, value |-> v, comparison |-> Greater] :
        v \in {3, 8, 12}}

WaitRecords == {PCWait, DigitalWait} \cup AnalogWaits

\* the time of the wait of the model, at_time * clock_limit, a float: it is
\* counted in half ticks (30.5 ticks)
WaitTime == 61

\* the wait records of a shot file: generate_code writes the dataset
\* "wait_times" once per declared wait, so that a script compiles with one
\* wait or with none
WaitLists == {<<>>} \cup {<<w>> : w \in WaitRecords}

\* every sample array of the model
SampleArrays ==
    {a \in SeqsUpTo({0, 5}, MaxSamples) :
        a \in UserSamples \/ a \in PlaceholderSamples}

Shots ==
    [clocks : [Outputs -> DigitalClocks \cup AnalogClocks],
     analog_data : [AnalogOutputs -> SampleArrays],
     waits : WaitLists]

IsShot(s) ==
    /\ \A o \in DigitalOutputs : s.clocks[o] \in DigitalClocks
    /\ \A o \in AnalogOutputs : s.clocks[o] \in AnalogClocks
    /\ \A o \in AnalogOutputs :
         IF output_conn_names[o].group_name = "placeholder"
           THEN s.analog_data[o] \in PlaceholderSamples
           ELSE s.analog_data[o] \in UserSamples

(***************************************************************************)
(* numpy: np.any(new != cached) where cached is dict.get(name).            *)
(* Same length: elementwise.  One operand of length 1: it is broadcast.    *)
(* Any other length mismatch: the comparison as a whole gives True.        *)
(* A missing entry is None, which differs from every non-empty array.      *)
(***************************************************************************)
ArrayAnyNe(a, b) ==
    IF Len(a) = Len(b) THEN \E i \in 1..Len(a) : a[i] # b[i]
    ELSE IF Len(b) = 1 THEN \E i \in 1..Len(a) : a[i] # b[1]
    ELSE IF Len(a) = 1 THEN \E i \in 1..Len(b) : a[1] # b[i]
    ELSE TRUE

\* variant: a missing cache entry is taken for an unchanged dataset
NumpyAnyNe_MissingIsEqual(new, cached, name) ==
    IF name \notin DOMAIN cached THEN FALSE ELSE ArrayAnyNe(new, cached[name])

NumpyAnyNe(new, cached, name) ==
    IF name \notin DOMAIN cached THEN TRUE ELSE ArrayAnyNe(new, cached[name])


ShotFiles == {s \in Shots : IsShot(s)}

\* the shot files of a script that declares no wait
PlainShots == {s \in ShotFiles : s.waits = <<>>}

(***************************************************************************)
(* value_to_bytes(i, length) of util.py: the base-256 digits of i, most    *)
(* significant first, padded with leading zero bytes to `length` or cut    *)
(* to the first `length` digits.  The loop runs while i > 0, so that zero, *)
(* a negative number and nan have no digit.                                *)
(***************************************************************************)
RECURSIVE Digits(_)
Digits(i) == IF i > 0 THEN Append(Digits(i \div 256), i % 256) ELSE <<>>

\* variant: the digits are laid out least significant first
value_to_bytes_LittleEndian(i, length) ==
    LET digits == Digits(i)
        bytes_ == [k \in 1..Len(digits) |-> digits[Len(digits) + 1 - k]]
        diff == length - Len(bytes_)
    IN  IF diff >= 0 THEN bytes_ \o [k \in 1..diff |-> 0]
        ELSE SubSeq(bytes_, 1, length)

\* variant: digits beyond `length` are kept
value_to_bytes_PadOnly(i, length) ==
    LET bytes_ == Digits(i)
        diff == length - Len(bytes_)
    IN  IF diff >= 0 THEN [k \in 1..diff |-> 0] \o bytes_ ELSE bytes_

value_to_bytes(i, length) ==
    LET bytes_ == Digits(i)
        diff == length - Len(bytes_)
    IN  IF diff >= 0 THEN [k \in 1..diff |-> 0] \o bytes_
        ELSE SubSeq(bytes_, 1, length)

\* the bytes of a frame: value_to_bytes of every field send_value is given
RECURSIVE FrameBytes(_)
FrameBytes(frame) ==
    IF frame = <<>> THEN <<>>
    ELSE value_to_bytes(Head(frame)[1], Head(frame)[2]) \o FrameBytes(Tail(frame))

\* ''.join(self.write_buffer)
RECURSIVE BufferBytes(_)
BufferBytes(buffer) ==
    IF buffer = <<>> THEN <<>>
    ELSE FrameBytes(Head(buffer)) \o BufferBytes(Tail(buffer))

(***************************************************************************)
(* FPGAInterface: the framing calls.  A frame is the sequence of           *)
(* <<value, n_bytes>> pairs the call passes to send_value, in order; with  *)
(* buffered = True each of them is appended to write_buffer.               *)
(***************************************************************************)
RECURSIVE TickFields(_)
TickFields(clock) ==
    IF clock = <<>> THEN <<>>
    ELSE << <<Head(clock)[2], 4>>, <<Head(clock)[1], 4>> >>
            \o TickFields(Tail(clock))

\* variant: the count byte counts the two words of every tick
send_pseudoclock_TwoWordsPerTick(board_number, channel_number, clock) ==
    << <<FPGAModes.pseudoclock, 1>>, <<board_number, 1>>, <<channel_number, 1>>,
       <<2 * Len(clock), 1>> >> \o TickFields(clock)

send_pseudoclock(board_number, channel_number, clock) ==
    << <<FPGAModes.pseudoclock, 1>>, <<board_number, 1>>, <<channel_number, 1>>,
       <<Len(clock), 1>> >> \o TickFields(clock)

RECURSIVE DataFields(_, _, _, _)
DataFields(data, address, range_min, range_max) ==
    IF data = <<>> THEN <<>>
    ELSE << <<address, 2>>, <<CodeOf(Head(data), range_min, range_max), 2>> >>
            \o DataFields(Tail(data), address + 1, range_min, range_max)

send_analog_data(board_number, channel_number, range_min, range_max, data) ==
    << <<FPGAModes.data, 1>>, <<board_number, 1>>, <<channel_number, 1>>,
       <<Len(data), 2>> >> \o DataFields(data, 0, range_min, range_max)

send_repeats_and_period(shot_reps, shot_period) ==
    << <<FPGAModes.repeat, 1>>, <<shot_reps, 2>>, <<shot_period, 8>> >>

\* the output a wait record names by board and channel
OutputAt(board_number, channel_number) ==
    {o \in Outputs : /\ output_conn_names[o].board_number = board_number
                     /\ output_conn_names[o].channel_number = channel_number}

\* send_wait_info.  comparison != FPGAWait.null_value compares with np.nan,
\* which is unequal to every number and to itself, so the analog branch is
\* taken for every record.  An absent (nan) field passes through send_value
\* unchanged (value_to_bytes pads it to zero bytes); quantize_analog_value
\* returns 0, 0 for nan from its ValueError handler.
send_wait_info(board_number, channel_number, value, comparison) ==
    << <<FPGAModes.analog_wait, 1>>, <<board_number, 1>>, <<channel_number, 1>>,
       <<IF value = NaN THEN 0 ELSE CodeOf(value, 0, 10), 2>>,
       <<comparison, 1>> >>

RECURSIVE WaitFrames(_)
WaitFrames(waits) ==
    IF waits = <<>> THEN <<>>
    ELSE << send_wait_info(Head(waits).board_number, Head(waits).channel_number,
                           Head(waits).value, Head(waits).comparison) >>
            \o WaitFrames(Tail(waits))

\* self.send_value(int(time_), n_bytes=8) for every time, a float counted
\* in half ticks
RECURSIVE TimeFields(_)
TimeFields(times) ==
    IF times = <<>> THEN <<>>
    ELSE << <<IntTrunc(Head(times), 2), 8>> >> \o TimeFields(Tail(times))

send_wait_times(times) == << <<FPGAModes.wait_times, 1>> >> \o TimeFields(times)

\* send_realtime_value: the frame, and the value it returns to program_manual
send_realtime_value(board_number, channel_number, value, range_min, range_max, output_type) ==
    << <<FPGAModes.realtime, 1>>, <<board_number, 1>>, <<channel_number, 1>> >>
    \o (IF output_type = "analog"
          THEN << <<CodeOf(value, range_min, range_max), 2>> >>
          ELSE << <<value, 1>> >>)

\* the value send_realtime_value returns, for an analog output a voltage
RealtimeReturn(value, range_min, range_max, output_type) ==
    IF output_type = "analog" THEN CoercedOf(value, range_min, range_max) ELSE value

IsFrameFor(frame, mode, o) ==
    /\ Len(frame) >= 3
    /\ frame[1][1] = mode
    /\ frame[2][1] = output_conn_names[o].board_number
    /\ frame[3][1] = output_conn_names[o].channel_number

HasFrame(frames, mode, o) == \E i \in 1..Len(frames) : IsFrameFor(frames[i], mode, o)


(***************************************************************************)
(* FPGADeviceWorker.transition_to_buffered, step by step.                  *)
(***************************************************************************)
RECURSIVE SumToggles(_)
SumToggles(clock) ==
    IF clock = <<>> THEN 0 ELSE Head(clock)[2] + SumToggles(Tail(clock))

\* the outputs whose dataset is (re)sent: fresh_program or np.any(new != cached)
ToSend(datasets, cached, fresh_program) ==
    {o \in DOMAIN datasets : fresh_program \/ NumpyAnyNe(datasets[o], cached, o)}

\* smart_cache[...][output_name] = dataset, for the outputs that are sent
CacheAfter(datasets, cached, sent) ==
    [o \in DOMAIN cached \cup sent |->
        IF o \in sent THEN datasets[o] ELSE cached[o]]

\* the range used for an analog data frame: analog_properties, (0, 5) on KeyError
RangeOf(props, o) == IF o \in DOMAIN props THEN props[o] ELSE <<0, 10>>

RECURSIVE ClockFrames(_, _, _)
ClockFrames(order, clocks, sent) ==
    IF order = <<>> THEN <<>>
    ELSE (IF Head(order) \in sent
            THEN << send_pseudoclock(output_conn_names[Head(order)].board_number,
                                     output_conn_names[Head(order)].channel_number,
                                     clocks[Head(order)]) >>
            ELSE <<>>)
         \o ClockFrames(Tail(order), clocks, sent)

RECURSIVE DataFrames(_, _, _, _)
DataFrames(order, analog_data, sent, props) ==
    IF order = <<>> THEN <<>>
    ELSE (IF Head(order) \in sent
            THEN << send_analog_data(output_conn_names[Head(order)].board_number,
                                     output_conn_names[Head(order)].channel_number,
                                     RangeOf(props, Head(order))[1],
                                     RangeOf(props, Head(order))[2],
                                     analog_data[Head(order)]) >>
            ELSE <<>>)
         \o DataFrames(Tail(order), analog_data, sent, props)

\* final_state[output_name] = clock[0]['toggles'] + (n_toggles % 2)
DigitalFinalState(clock) == clock[1][2] + (SumToggles(clock) % 2)

\* final_state as the handler builds it: every digital output of the shot,
\* and the analog outputs whose data is sent in this shot
FinalState(shot, data_sent) ==
    [o \in {d \in DOMAIN shot.clocks : output_conn_names[d].output_type = "digital"}
           \cup data_sent |->
        IF output_conn_names[o].output_type = "digital"
          THEN DigitalFinalState(shot.clocks[o])
          ELSE shot.analog_data[o][Len(shot.analog_data[o])]]


(***************************************************************************)
(* Initial state: FPGAInterface.__init__, FPGADeviceWorker.init and        *)
(* FPGADeviceTab.initialise_GUI / initialise_workers.                      *)
(***************************************************************************)
EmptyDict == [o \in {} |-> 0]

\* the front panel when the worker starts: every widget at 0
initial_values ==
    [o \in PanelOutputs |->
        IF output_conn_names[o].output_type = "analog" THEN Fine(0) ELSE 0]

\* analog_properties as initialise_GUI builds it: 'min': 0.0, 'max': 5.0
InitialProperties == [o \in PanelOutputs \cap AnalogOutputs |-> <<0, 10>>]

NoCall == [op |-> "init"]
NoResult == [raised |-> FALSE, final_state |-> EmptyDict, modified_values |-> EmptyDict]
NoQuant == [value |-> 0, range_min |-> 0, range_max |-> 10, applied |-> FALSE,
            error |-> "none", ret |-> <<0, 0>>]

\* FPGADeviceTab before the first shot: no status timeout is registered,
\* nothing is queued, the device has reported nothing
NoTimeout == [interval |-> 0, notify |-> FALSE]
TabInit ==
    [timeout |-> NoTimeout, events |-> <<>>, notify_queue |-> <<>>, rx |-> <<>>,
     running |-> FALSE, runs |-> 0]

\* a script before its first declaration: the OutputIntermediateDevice has
\* no child and no output, the FPGADevice no wait
\* output is written <<>> for None and <<device>> for a reference to device;
\* at_times keeps, for every wait record of waits, the at_time it was
\* declared with; file is what generate_code has persisted of the waits
NoFile == [waits |-> <<>>, wait_times |-> <<>>, raised |-> FALSE, persisted |-> FALSE]
ScriptInit ==
    [child_devices |-> <<>>, output |-> <<>>, waits |-> <<>>, wait_times |-> <<>>,
     at_times |-> <<>>, file |-> NoFile]

WorkerInit ==
    /\ smart_cache = [clocks |-> EmptyDict, data |-> EmptyDict,
                      output_values |-> initial_values]
    /\ analog_properties = InitialProperties
    /\ write_buffer = <<>>
    /\ written = <<>>
    /\ enqueued = <<>>
    /\ call = NoCall
    /\ cached_before = [clocks |-> {}, data |-> {}, output_values |-> {}]
    /\ result = NoResult
    /\ transfers = <<>>
    /\ tab = TabInit
    /\ script = ScriptInit
    /\ stack = <<>>

Init ==
    /\ WorkerInit
    /\ quant = NoQuant

(***************************************************************************)
(* Length of the shot and repeat count sent with every shot:               *)
(* int(stop_time * clock_limit) and the script's shot_reps (default 1).    *)
(***************************************************************************)
ShotPeriod == 60
ShotReps == 1

(***************************************************************************)
(* transition_to_buffered(device_name, h5file, initial_values,             *)
(* fresh_program).  The handler enqueues the repeat frame and the          *)
(* pseudoclock frames and flushes, enqueues the data frames and flushes,   *)
(* enqueues the wait frames and flushes.  failing_flush = 0: every write   *)
(* succeeds; failing_flush = k in 1..3: the write of the k-th flush is     *)
(* short or returns a negative status before a whole frame of that flush   *)
(* reached the device, and send_bytes raises FTDIError.  send_buffer has   *)
(* emptied write_buffer before it writes.                                  *)
(***************************************************************************)
\* variant: the repeat frame follows the pseudoclock frames
FirstFlush_RepeatLast(clock_frames) ==
    clock_frames \o << send_repeats_and_period(ShotReps, ShotPeriod) >>

\* self.interface.send_repeats_and_period(shot_reps, shot_period), then the
\* pseudoclock frames of the loop over clocks
FirstFlush(clock_frames) ==
    << send_repeats_and_period(ShotReps, ShotPeriod) >> \o clock_frames

transition_to_buffered(shot, fresh_program, failing_flush) ==
    LET clocks_sent == ToSend(shot.clocks, smart_cache.clocks, fresh_program)
        clocks_cache == CacheAfter(shot.clocks, smart_cache.clocks, clocks_sent)
        flush1 == FirstFlush(ClockFrames(GroupOrder, shot.clocks, clocks_sent))
        data_sent == ToSend(shot.analog_data, smart_cache.data, fresh_program)
        data_cache == CacheAfter(shot.analog_data, smart_cache.data, data_sent)
        flush2 == DataFrames(GroupOrder, shot.analog_data, data_sent,
                             analog_properties)
        flush3 == WaitFrames(shot.waits)
                    \o (IF shot.waits = <<>> THEN <<>>
                        ELSE << send_wait_times([i \in 1..Len(shot.waits) |-> WaitTime]) >>)
        failed == IF failing_flush = 1 THEN flush1
                  ELSE IF failing_flush = 2 THEN flush2
                  ELSE IF failing_flush = 3 THEN flush3
                  ELSE <<>>
    IN  /\ failing_flush \in 0..3
        /\ (failing_flush = 0) # (failed # <<>>)
        /\ call' = [op |-> "transition_to_buffered", shot |-> shot,
                    fresh_program |-> fresh_program]
        /\ cached_before' = [clocks |-> DOMAIN smart_cache.clocks,
                             data |-> DOMAIN smart_cache.data,
                             output_values |-> DOMAIN smart_cache.output_values]
        /\ write_buffer' = <<>>
        /\ smart_cache' =
             [smart_cache EXCEPT
                !.clocks = clocks_cache,
                !.data = IF failing_flush = 1 THEN @ ELSE data_cache]
        /\ enqueued' =
             IF failing_flush = 1 THEN flush1
             ELSE IF failing_flush = 2 THEN flush1 \o flush2
             ELSE flush1 \o flush2 \o flush3
        /\ written' =
             IF failing_flush = 1 THEN <<>>
             ELSE IF failing_flush = 2 THEN flush1
             ELSE IF failing_flush = 3 THEN flush1 \o flush2
             ELSE flush1 \o flush2 \o flush3
        /\ result' =
             IF failing_flush # 0
               THEN [raised |-> TRUE, final_state |-> EmptyDict,
                     modified_values |-> EmptyDict]
               ELSE [raised |-> FALSE, final_state |-> FinalState(shot, data_sent),
                     modified_values |-> EmptyDict]
        /\ UNCHANGED <<analog_properties, quant, transfers, tab, script, stack>>

TransitionToBuffered ==
    \E shot \in PlainShots, fresh_program \in BOOLEAN, failing_flush \in 0..3 :
        transition_to_buffered(shot, fresh_program, failing_flush)

Next == TransitionToBuffered

Spec == Init /\ [][Next]_vars


(***************************************************************************)
(* program_manual(values).  values holds the front panel value of every    *)
(* output that has a widget.  A digital value is a level; an analog value  *)
(* is requested in half volts and compared with the cached voltage.        *)
(***************************************************************************)
\* the voltages a front panel value is drawn from, in half volts
RequestVolts == {-MaxHalfVolt, -4, 0, 3, 10, MaxHalfVolt}

FrontPanelValues ==
    {v \in [PanelOutputs -> RequestVolts \cup {1}] :
        \A o \in PanelOutputs :
            IF output_conn_names[o].output_type = "digital"
              THEN v[o] \in 0..1
              ELSE v[o] \in RequestVolts}

\* a requested value as the cache holds values: a voltage for an analog output
Requested(values, o) ==
    IF output_conn_names[o].output_type = "analog" THEN Fine(values[o]) ELSE values[o]

\* value != self.smart_cache['output_values'].get(output_name)
ManualChanged(values, cached) ==
    {o \in DOMAIN values : o \notin DOMAIN cached \/ Requested(values, o) # cached[o]}

\* range_min, range_max as program_manual picks them
ManualRange(props, o) ==
    IF output_conn_names[o].output_type = "analog" THEN props[o] ELSE <<0, 10>>

\* variant: the requested value is cached instead of the returned one
NewValue_Requested(values, props, o) == Requested(values, o)

\* new_value = self.interface.send_realtime_value(...)
NewValue(values, props, o) ==
    RealtimeReturn(values[o], ManualRange(props, o)[1], ManualRange(props, o)[2],
                   output_conn_names[o].output_type)

RECURSIVE RealtimeFrames(_, _, _, _)
RealtimeFrames(order, values, changed, props) ==
    IF order = <<>> THEN <<>>
    ELSE (IF Head(order) \in changed
            THEN << send_realtime_value(output_conn_names[Head(order)].board_number,
                                        output_conn_names[Head(order)].channel_number,
                                        values[Head(order)],
                                        ManualRange(props, Head(order))[1],
                                        ManualRange(props, Head(order))[2],
                                        output_conn_names[Head(order)].output_type) >>
            ELSE <<>>)
         \o RealtimeFrames(Tail(order), values, changed, props)

\* write_fails: the write of the final send_buffer is short or returns a
\* negative status, and send_bytes raises FTDIError
program_manual(values, write_fails) ==
    LET changed == ManualChanged(values, smart_cache.output_values)
        frames == RealtimeFrames(GroupOrder, values, changed, analog_properties)
        modified_values == [o \in changed |-> NewValue(values, analog_properties, o)]
    IN  /\ IF write_fails THEN frames # <<>> ELSE TRUE
        /\ call' = [op |-> "program_manual", values |-> values]
        /\ cached_before' = [clocks |-> DOMAIN smart_cache.clocks,
                             data |-> DOMAIN smart_cache.data,
                             output_values |-> DOMAIN smart_cache.output_values]
        /\ smart_cache' =
             [smart_cache EXCEPT
                !.output_values =
                    [o \in DOMAIN @ \cup changed |->
                        IF o \in changed THEN modified_values[o] ELSE @[o]]]
        /\ enqueued' = frames
        /\ write_buffer' = <<>>
        /\ written' = IF write_fails THEN <<>> ELSE frames
        /\ result' =
             IF write_fails
               THEN [raised |-> TRUE, final_state |-> EmptyDict,
                     modified_values |-> EmptyDict]
               ELSE [raised |-> FALSE, final_state |-> EmptyDict,
                     modified_values |-> modified_values]
        /\ UNCHANGED <<analog_properties, quant, transfers, tab, script, stack>>

ProgramManual ==
    \E values \in FrontPanelValues, write_fails \in BOOLEAN :
        program_manual(values, write_fails)

(***************************************************************************)
(* FPGADeviceTab.update_output_range(output_name, conn_name, index): the   *)
(* worker takes over the new properties (update_output_properties) and     *)
(* sends the range index to the device (send_output_range), unbuffered.    *)
(***************************************************************************)
send_output_range(board_number, channel_number, output_range) ==
    << <<FPGAModes.output_range, 1>>, <<board_number, 1>>, <<channel_number, 1>>,
       <<output_range, 1>> >>

update_output_range(output_name, index) ==
    /\ analog_properties' =
         [analog_properties EXCEPT ![output_name] = DAC_ranges[index + 1]]
    /\ call' = [op |-> "update_output_range", output_name |-> output_name,
                index |-> index]
    /\ cached_before' = [clocks |-> DOMAIN smart_cache.clocks,
                         data |-> DOMAIN smart_cache.data,
                         output_values |-> DOMAIN smart_cache.output_values]
    /\ enqueued' = << send_output_range(output_conn_names[output_name].board_number,
                                        output_conn_names[output_name].channel_number,
                                        index) >>
    /\ write_buffer' = <<>>
    /\ written' = enqueued'
    /\ result' = NoResult
    /\ UNCHANGED <<smart_cache, quant, transfers, tab, script, stack>>

UpdateOutputRange ==
    \E output_name \in DOMAIN analog_properties, index \in 0..(Len(DAC_ranges) - 1) :
        update_output_range(output_name, index)

NextManual == ProgramManual \/ UpdateOutputRange

SpecManual == Init /\ [][NextManual]_vars

(***************************************************************************)
(* Shots with a wait.  The outputs stay at 0 during the shot; the wait     *)
(* record and the range configured for the analog output vary.             *)
(***************************************************************************)
WaitShots ==
    {s \in ShotFiles :
        /\ s.waits # <<>>
        /\ \A o \in AnalogOutputs : s.analog_data[o] = <<0>>
        /\ \A o \in DigitalOutputs : s.clocks[o] = << <<NClocks, 0>>, <<NClocks, 0>> >>}

TransitionToBufferedWaits ==
    \E shot \in WaitShots, fresh_program \in BOOLEAN, failing_flush \in 0..3 :
        transition_to_buffered(shot, fresh_program, failing_flush)

NextWaits == TransitionToBufferedWaits \/ UpdateOutputRange

SpecWaits == Init /\ [][NextWaits]_vars

(***************************************************************************)
(* FPGAInterface byte by byte: send_bytes, send_buffer and the calls that  *)
(* enqueue or flush.  A transfer is one call of ftdi.write_data: the bytes *)
(* it was given, the number it returned as accepted and whether            *)
(* send_buffer slept after it.                                             *)
(***************************************************************************)
\* chunksize=None, delay=None
None == 0
\* data_delay, in milliseconds
DataDelay == 4

ChunkSizes == 1..MaxChunk

Transfer(bytes, accepted, slept) ==
    [bytes |-> bytes, accepted |-> accepted, slept |-> slept]

\* what ftdi.write_data answers to n bytes when the transfer goes wrong: one
\* byte less than requested, or a negative status (error_check raises)
Accepted(n, fault) == IF fault = "short" THEN n - 1 ELSE -1

\* variant: no extra chunk
n_chunks_NoExtra(length, chunksize) == PyRound(length, chunksize)

\* n_chunks = int(round(len(byte_sequence) / float(chunksize))) + 1
n_chunks(length, chunksize) == PyRound(length, chunksize) + 1

\* the non-empty slices byte_sequence[i * chunksize:(i + 1) * chunksize]
\* for i in range(n_chunks)
Chunks(byte_sequence, chunksize) ==
    LET length == Len(byte_sequence)
        sent == {i \in 0..(n_chunks(length, chunksize) - 1) : i * chunksize < length}
        upto(i) == IF (i + 1) * chunksize < length THEN (i + 1) * chunksize ELSE length
    IN  [k \in 1..Cardinality(sent) |->
            SubSeq(byte_sequence, (k - 1) * chunksize + 1, upto(k - 1))]

\* variant: the loop goes on after a transfer that went wrong
WriteChunks_Continue(chunks, slept, failing, fault) ==
    [k \in 1..Len(chunks) |->
        IF k = failing
          THEN Transfer(chunks[k], Accepted(Len(chunks[k]), fault), FALSE)
          ELSE Transfer(chunks[k], Len(chunks[k]), slept)]

\* send_bytes(sub_seq, buffered=False) for every chunk in turn, time.sleep
\* after it when a delay is given.  failing = 0: every transfer is accepted
\* whole; failing = k: the k-th goes wrong, send_bytes raises FTDIError and
\* the loop is left
WriteChunks(chunks, slept, failing, fault) ==
    [k \in 1..(IF failing = 0 THEN Len(chunks) ELSE failing) |->
        IF k = failing
          THEN Transfer(chunks[k], Accepted(Len(chunks[k]), fault), FALSE)
          ELSE Transfer(chunks[k], Len(chunks[k]), slept)]

\* the chunks send_buffer(chunksize, delay) hands to send_bytes
BufferChunks(buffer, chunksize) ==
    IF buffer = <<>> THEN <<>>
    ELSE IF chunksize = None THEN << BufferBytes(buffer) >>
    ELSE Chunks(BufferBytes(buffer), chunksize)

\* FTDIError was raised: a transfer returned less than it was given
Raised(done) == \E i \in 1..Len(done) : done[i].accepted < Len(done[i].bytes)

\* the transfers that go wrong in the model: none, or the first or the
\* second of the call
Faults == {<<0, "short">>} \cup ({1, 2} \X {"short", "status"})

\* what one call of the interface leaves: the frames it appended to
\* write_buffer, the buffer and the transfers it made
InterfaceWrites(c, appended, buffer, done) ==
    /\ call' = c
    /\ enqueued' = appended
    /\ write_buffer' = buffer
    /\ transfers' = done
    /\ result' = [NoResult EXCEPT !.raised = Raised(done)]
    /\ UNCHANGED <<smart_cache, analog_properties, written, cached_before, quant,
                   script, stack>>

\* one call of the interface made on its own
InterfaceCall(c, appended, buffer, done) ==
    /\ InterfaceWrites(c, appended, buffer, done)
    /\ UNCHANGED tab

\* variant: a buffered call writes its bytes at once
Buffered_WriteThrough(c, frame) ==
    /\ Len(write_buffer) < MaxBuffered
    /\ InterfaceCall(c, <<frame>>, write_buffer,
                     << Transfer(FrameBytes(frame), Len(FrameBytes(frame)), FALSE) >>)

\* send_value(..., buffered=True) for every field of a frame:
\* self.write_buffer.append(bytes_)
Buffered(c, frame) ==
    /\ Len(write_buffer) < MaxBuffered
    /\ InterfaceCall(c, <<frame>>, Append(write_buffer, frame), <<>>)

\* a call that appends a frame and ends with self.send_buffer()
Flushed(c, frame, failing, fault) ==
    LET chunks == BufferChunks(Append(write_buffer, frame), None)
    IN  /\ failing <= Len(chunks)
        /\ InterfaceCall(c, <<frame>>, <<>>, WriteChunks(chunks, FALSE, failing, fault))

\* send_value(value, n_bytes, buffered)
SendValue ==
    \E value \in {7}, n_bytes \in {2} :
        Buffered([op |-> "send_value", value |-> value, n_bytes |-> n_bytes],
                 << <<value, n_bytes>> >>)

\* variant: the bytes of the call go out before the buffered ones
UnbufferedChunks_OwnFirst(buffer, bytes_) == << bytes_ >> \o BufferChunks(buffer, None)

\* send_bytes(bytes_, buffered=False): self.send_buffer() writes what is
\* buffered, then ftdi.write_data writes bytes_
UnbufferedChunks(buffer, bytes_) == BufferChunks(buffer, None) \o << bytes_ >>

\* send_value(value, n_bytes, buffered=False): send_buffer(), then
\* send_bytes(bytes_, buffered=False)
SendValueUnbuffered ==
    \E value \in {7}, n_bytes \in {2}, f \in Faults :
        LET chunks == UnbufferedChunks(write_buffer, value_to_bytes(value, n_bytes))
        IN  /\ f[1] <= Len(chunks)
            /\ InterfaceCall([op |-> "send_value_unbuffered", value |-> value,
                               n_bytes |-> n_bytes],
                             <<>>, <<>>, WriteChunks(chunks, FALSE, f[1], f[2]))

\* send_bytes(bytes_, buffered=True)
SendBytes ==
    \E bytes_ \in {<<255>>} :
        Buffered([op |-> "send_bytes", bytes_ |-> bytes_],
                 [k \in 1..Len(bytes_) |-> <<bytes_[k], 1>>])

SendPseudoclock ==
    \E o \in PanelOutputs \cap AnalogOutputs, clock \in AnalogClocks :
        Buffered([op |-> "send_pseudoclock", output |-> o, clock |-> clock],
                 send_pseudoclock(output_conn_names[o].board_number,
                                  output_conn_names[o].channel_number, clock))

SendAnalogData ==
    \E o \in PanelOutputs \cap AnalogOutputs, data \in {<<5>>} :
        Buffered([op |-> "send_analog_data", output |-> o, data |-> data],
                 send_analog_data(output_conn_names[o].board_number,
                                  output_conn_names[o].channel_number,
                                  analog_properties[o][1], analog_properties[o][2],
                                  data))

SendRealtimeValue ==
    \E o \in DigitalOutputs, value \in {1} :
        Buffered([op |-> "send_realtime_value", output |-> o, value |-> value],
                 send_realtime_value(output_conn_names[o].board_number,
                                     output_conn_names[o].channel_number,
                                     value, 0, 10, output_conn_names[o].output_type))

SendWaitInfo ==
    \E wait \in {PCWait} :
        Buffered([op |-> "send_wait_info", wait |-> wait],
                 send_wait_info(wait.board_number, wait.channel_number,
                                wait.value, wait.comparison))

\* a later wait, declared first: 600.5 ticks
LateWaitTime == 1201

\* the wait_times of no wait, of one wait and of two waits
TimeLists == {<<>>, <<WaitTime>>, <<LateWaitTime, WaitTime>>}

SendWaitTimes ==
    \E times \in TimeLists :
        Buffered([op |-> "send_wait_times", times |-> times], send_wait_times(times))

SendRepeatsAndPeriod ==
    Buffered([op |-> "send_repeats_and_period", shot_reps |-> ShotReps,
              shot_period |-> ShotPeriod],
             send_repeats_and_period(ShotReps, ShotPeriod))

\* send_buffer(chunksize, delay); the delay is used with a chunk size only
SendBuffer ==
    \E chunksize \in {None} \cup ChunkSizes, delay \in {None, DataDelay}, f \in Faults :
        LET chunks == BufferChunks(write_buffer, chunksize)
        IN  /\ chunksize = None => delay = None
            /\ f[1] <= Len(chunks)
            /\ InterfaceCall([op |-> "send_buffer", chunksize |-> chunksize,
                               delay |-> delay,
                               length |-> Len(BufferBytes(write_buffer))],
                             <<>>, <<>>,
                             WriteChunks(chunks, chunksize # None /\ delay # None,
                                         f[1], f[2]))

\* start(): the trigger byte, then send_buffer()
Start ==
    \E f \in Faults :
        Flushed([op |-> "start"], << <<FPGAModes.trigger, 1>> >>, f[1], f[2])

\* reset(): self.send_value(FPGAModes.reset, n_bytes=1); the ftdi calls that
\* follow reset the chip and do not touch write_buffer
Reset == Buffered([op |-> "reset"], << <<FPGAModes.reset, 1>> >>)

\* variant: the range frame stays in write_buffer
OutputRangeCall_Buffered(board_number, channel_number, output_range, failing, fault) ==
    /\ failing = 0
    /\ InterfaceCall([op |-> "send_output_range", output_range |-> output_range,
                       board_number |-> board_number,
                       channel_number |-> channel_number],
                     << send_output_range(board_number, channel_number, output_range) >>,
                     Append(write_buffer,
                            send_output_range(board_number, channel_number, output_range)),
                     <<>>)

\* send_output_range(board_number, channel_number, output_range): four
\* buffered send_value calls, then send_buffer()
OutputRangeCall(board_number, channel_number, output_range, failing, fault) ==
    Flushed([op |-> "send_output_range", output_range |-> output_range,
             board_number |-> board_number, channel_number |-> channel_number],
            send_output_range(board_number, channel_number, output_range),
            failing, fault)

SendOutputRange ==
    \E o \in PanelOutputs \cap AnalogOutputs, index \in {Len(DAC_ranges) - 1},
       f \in Faults :
        OutputRangeCall(output_conn_names[o].board_number,
                        output_conn_names[o].channel_number, index, f[1], f[2])

NextInterface ==
    \/ SendValue
    \/ SendValueUnbuffered
    \/ SendBytes
    \/ SendPseudoclock
    \/ SendAnalogData
    \/ SendRealtimeValue
    \/ SendWaitInfo
    \/ SendWaitTimes
    \/ SendRepeatsAndPeriod
    \/ SendBuffer
    \/ Start
    \/ Reset
    \/ SendOutputRange

SpecInterface == Init /\ [][NextInterface]_vars

(***************************************************************************)
(* The quantizer on its own: the arguments are drawn in the initial state  *)
(* and one step applies quantize_analog_value to them.                     *)
(***************************************************************************)
Volts == -MaxHalfVolt..MaxHalfVolt

InitQuantize ==
    /\ WorkerInit
    /\ \E value \in Volts, range_min \in Volts, range_max \in Volts :
         /\ range_min <= range_max
         /\ quant = [value |-> value, range_min |-> range_min,
                     range_max |-> range_max, applied |-> FALSE,
                     error |-> "none", ret |-> <<0, 0>>]

\* ret is the returned pair; a call that raises returns nothing and leaves it
QuantizeAnalogValue ==
    /\ ~quant.applied
    /\ LET error == quantize_analog_value_error(quant.value, quant.range_min,
                                                quant.range_max)
       IN  quant' = [quant EXCEPT
                       !.applied = TRUE,
                       !.error = error,
                       !.ret = IF error = "none"
                                 THEN quantize_analog_value(quant.value,
                                          quant.range_min, quant.range_max)
                                 ELSE @]
    /\ UNCHANGED <<smart_cache, analog_properties, write_buffer, written, enqueued,
                   call, cached_before, result, transfers, tab, script, stack>>

NextQuantize == QuantizeAnalogValue

SpecQuantize == InitQuantize /\ [][NextQuantize]_vars

(***************************************************************************)
(* Single calls: the arguments of one call are drawn in the initial state  *)
(* and one step makes the call.  The framing calls are made on an          *)
(* interface whose write_buffer is still empty.                            *)
(***************************************************************************)
MaxTicks == 2

\* the ticks of the clocks handed to send_pseudoclock: <<field 0, field 1>>
ClockTicks == {<<NClocks, 0>>, <<NClocks, 1>>, <<70000, 3>>}

PseudoclockCalls ==
    {[op |-> "send_pseudoclock", board_number |-> b, channel_number |-> c,
      clock |-> clock] :
        b \in 0..1, c \in {0, 8}, clock \in {<<>>} \cup SeqsUpTo(ClockTicks, MaxTicks)}

\* samples below, inside and above the ranges of DAC_ranges, in half volts
AnalogDataCalls ==
    {[op |-> "send_analog_data", board_number |-> 1, channel_number |-> c,
      range |-> DAC_ranges[i], data |-> data] :
        c \in 0..1, i \in DOMAIN DAC_ranges,
        data \in {<<>>} \cup SeqsUpTo({-2, 0, 5, 12}, MaxSamples)}

\* the worker as constructed, about to make one of `calls`
Drawn(calls) ==
    /\ smart_cache = [clocks |-> EmptyDict, data |-> EmptyDict,
                      output_values |-> initial_values]
    /\ analog_properties = InitialProperties
    /\ write_buffer = <<>>
    /\ written = <<>>
    /\ enqueued = <<>>
    /\ call \in calls
    /\ cached_before = [clocks |-> {}, data |-> {}, output_values |-> {}]
    /\ result = NoResult
    /\ transfers = <<>>
    /\ quant = NoQuant
    /\ tab = TabInit
    /\ script = ScriptInit
    /\ stack = <<>>

\* a call that returns a value or raises: the state it leaves
Returned(value) ==
    /\ result = NoResult
    /\ result' = value
    /\ UNCHANGED <<smart_cache, analog_properties, write_buffer, written, enqueued,
                   call, cached_before, quant, transfers, tab, script, stack>>

CallSendPseudoclock ==
    /\ call.op = "send_pseudoclock"
    /\ enqueued = <<>>
    /\ Buffered(call, send_pseudoclock(call.board_number, call.channel_number,
                                       call.clock))

CallSendAnalogData ==
    /\ call.op = "send_analog_data"
    /\ enqueued = <<>>
    /\ Buffered(call, send_analog_data(call.board_number, call.channel_number,
                                       call.range[1], call.range[2], call.data))

MaxWidth == 3

\* value_to_bytes(i, length): numbers around the powers of 256, up to the
\* largest 32-bit signed integer
ValueToBytesCalls ==
    {[op |-> "value_to_bytes", i |-> i, length |-> length] :
        i \in {0, 1, 255, 256, 257, 65535, 65536, 70000, 16777215, 16777216,
               16909060, 2147483647},
        length \in 1..MaxWidth}

CallValueToBytes ==
    /\ call.op = "value_to_bytes"
    /\ Returned([raised |-> FALSE, returned |-> value_to_bytes(call.i, call.length)])

(***************************************************************************)
(* OutputConnectionName.  A Python string is a sequence of pieces: the     *)
(* piece "_" is an underscore, every other piece is a run of characters    *)
(* without one.  A value that is None or a string is a record, so that     *)
(* None and the string 'None' are different values.                        *)
(***************************************************************************)
PyNone == [type |-> "NoneType", str |-> <<>>]
PyStr(pieces) == [type |-> "str", str |-> pieces]

\* str(n) and int(s) for the board and channel numbers of the model
Numerals == <<"0", "1", "2", "3", "4", "5", "6", "7", "8", "9">>
IntStr(n) == << Numerals[n + 1] >>
IsNumeral(pieces) == \E n \in 0..9 : pieces = IntStr(n)
StrInt(pieces) == CHOOSE n \in 0..9 : pieces = IntStr(n)

\* "{}".format(v): None is written out as the four letters None
Format(v) == IF v.type = "NoneType" THEN <<"None">> ELSE v.str

\* OutputConnectionName.__new__: "{}_{}_{}_{}".format(type_, board_num, channel_num, group_name)
OutputConnectionName(type_, board_num, channel_num, group_name) ==
    type_ \o <<"_">> \o IntStr(board_num) \o <<"_">> \o IntStr(channel_num)
        \o <<"_">> \o Format(group_name)

\* name.split('_'): the runs of pieces between the underscores
RECURSIVE Split(_)
Split(name) ==
    IF name = <<>> THEN << <<>> >>
    ELSE LET rest == Split(Tail(name))
         IN  IF Head(name) = "_" THEN << <<>> >> \o rest
             ELSE << <<Head(name)>> \o Head(rest) >> \o Tail(rest)

\* OutputConnectionName.decode(name): unpacking anything but four parts, or
\* int() of a part that is no number, raises ValueError
decode(name) ==
    LET parts == Split(name)
    IN  IF Len(parts) # 4 \/ ~IsNumeral(parts[2]) \/ ~IsNumeral(parts[3])
        THEN [raised |-> TRUE, returned |-> <<>>, name |-> name]
        ELSE [raised |-> FALSE,
              returned |-> [output_type |-> parts[1],
                            board_number |-> StrInt(parts[2]),
                            channel_number |-> StrInt(parts[3]),
                            group_name |-> PyStr(parts[4])],
              name |-> name]

\* the group names of the model: the default of FPGAAnalogOut and
\* FPGADigitalOut, the placeholder group of generate_code, and names a
\* script can give
GroupNames ==
    {PyNone, PyStr(<<"None">>), PyStr(<<"placeholder">>), PyStr(<<"shutters">>),
     PyStr(<<"mot", "_", "coils">>), PyStr(<<>>)}

ConnectionTuples ==
    [output_type : {<<"analog">>, <<"digital">>}, board_number : 0..1,
     channel_number : {0, 1, 8}, group_name : GroupNames]

DecodeCalls == {[op |-> "decode", connection |-> t] : t \in ConnectionTuples}

\* OutputConnectionName.decode(OutputConnectionName(type_, board, channel, group))
CallDecode ==
    /\ call.op = "decode"
    /\ Returned(decode(OutputConnectionName(call.connection.output_type,
                                            call.connection.board_number,
                                            call.connection.channel_number,
                                            call.connection.group_name)))

(***************************************************************************)
(* convert_to_clocks_and_toggles of src/FPGADevice.py.  Times are floats   *)
(* in seconds there; the model counts a step in half nanoseconds and       *)
(* writes clock_limit = 10^p Hz and clock_resolution = 10^-q s by their    *)
(* exponents p and q.  An n_clocks value is kept exact: <<m, e>> stands    *)
(* for m * 10^-e - 1, with m not a multiple of 10 unless e = 0.            *)
(***************************************************************************)
MaxInstructions == 2
MaxReps == 4

\* FPGADevice.clock_limit = 10e6 and FPGADevice.clock_resolution = 1e-9
ClockLimitDigits == 7
ResolutionDigits == 9

\* round(n / d) for n >= 0 and d > 0, a half going up, computed without
\* doubling n
RoundNat(n, d) == (n \div d) + (IF 2 * (n % d) >= d THEN 1 ELSE 0)

RECURSIVE Pow10(_)
Pow10(n) == IF n = 0 THEN 1 ELSE 10 * Pow10(n - 1)

\* m * 10^-e with the trailing zeros of m cancelled
RECURSIVE Scaled(_, _)
Scaled(m, e) ==
    IF e > 0 /\ m % 10 = 0 THEN Scaled(m \div 10, e - 1)
    ELSE IF e < 0 THEN Scaled(m * 10, e + 1)
    ELSE <<m, e>>

\* int(round(tick['step'] / clock_resolution)): the step in units of the
\* resolution, here nanoseconds
ResolutionSteps(step) == RoundNat(step, 2)

\* the tick appended for i == 0 on a DigitalOut:
\* n_clocks = (period / clock_limit) - 1, toggles = output.raw_output[0]
FirstTick(tick, output, clock_limit, clock_resolution) ==
    [n_clocks |-> Scaled(ResolutionSteps(tick.step), clock_resolution + clock_limit),
     toggles |-> output.raw_output[1]]

\* the tick appended for every instruction:
\* n_clocks = (period * clock_limit) - 1, toggles = tick['reps'], which
\* was decremented just before for the first instruction of a DigitalOut
TickOf(tick, first, clock_limit, clock_resolution) ==
    [n_clocks |-> Scaled(ResolutionSteps(tick.step), clock_resolution - clock_limit),
     toggles |-> IF first THEN tick.reps - 1 ELSE tick.reps]

convert_to_clocks_and_toggles(clock, output, clock_limit, clock_resolution) ==
    (IF clock # <<>> /\ output.is_digital
       THEN << FirstTick(clock[1], output, clock_limit, clock_resolution) >>
       ELSE <<>>)
    \o [i \in 1..Len(clock) |->
          TickOf(clock[i], i = 1 /\ output.is_digital, clock_limit, clock_resolution)]

\* steps of 1 s, 1.5 us and 1 us in half nanoseconds
ClockInstructions == [step : {2000000000, 3000, 2000}, reps : 1..MaxReps]

\* a DigitalOut that starts low or high, and an AnalogOut
ClockedOutputs ==
    {[is_digital |-> TRUE, raw_output |-> <<lvl>>] : lvl \in 0..1}
        \cup {[is_digital |-> FALSE, raw_output |-> <<0>>]}

ConvertCalls ==
    {[op |-> "convert_to_clocks_and_toggles", clock |-> clock, output |-> output,
      clock_limit |-> p, clock_resolution |-> ResolutionDigits] :
        clock \in SeqsUpTo(ClockInstructions, MaxInstructions),
        output \in ClockedOutputs, p \in {6, ClockLimitDigits}}

\* variant: the encoder works on a copy of its input
clock_after_Copy(clock, output) == clock

\* the list the caller passed, as the call leaves it: tick['reps'] -= 1 is
\* done on the first instruction of the list itself
clock_after(clock, output) ==
    IF clock # <<>> /\ output.is_digital
      THEN [clock EXCEPT ![1].reps = @ - 1]
      ELSE clock

CallConvertToClocksAndToggles ==
    /\ call.op = "convert_to_clocks_and_toggles"
    /\ Returned([raised |-> FALSE,
                 returned |-> convert_to_clocks_and_toggles(
                     call.clock, call.output, call.clock_limit, call.clock_resolution),
                 clock |-> clock_after(call.clock, call.output)])

\* the same list is encoded a second time: `again` is what the second call
\* returns, clock the list as the second call leaves it
CallConvertAgain ==
    /\ call.op = "convert_to_clocks_and_toggles"
    /\ result # NoResult
    /\ "again" \notin DOMAIN result
    /\ result' = [raised |-> FALSE,
                  returned |-> result.returned,
                  first_clock |-> result.clock,
                  again |-> convert_to_clocks_and_toggles(
                      result.clock, call.output, call.clock_limit,
                      call.clock_resolution),
                  clock |-> clock_after(result.clock, call.output)]
    /\ UNCHANGED <<smart_cache, analog_properties, write_buffer, written, enqueued,
                   call, cached_before, quant, transfers, tab, script, stack>>

(***************************************************************************)
(* reduce_clock_instructions, which generate_code applies to the clock of  *)
(* every pseudoclock.  The module that defines it, clock_processing, is    *)
(* not part of the sources at hand: the definitions below follow the       *)
(* description of the clock reducer.  An instruction with repeat count r   *)
(* holds its step r + 1 times.                                             *)
(***************************************************************************)
MaxRun == 3

\* variant: only instructions that agree in step and repeat count merge
Mergeable_EqualReps(acc, tick) == tick.step = acc.step /\ tick.reps = acc.reps

\* the next instruction's hold duration equals the accumulator's
Mergeable(acc, tick) == tick.step = acc.step

\* variant: the repeat counts are summed and nothing is added
Merged_NoExtra(acc, tick) == [acc EXCEPT !.reps = acc.reps + tick.reps]

\* merge by summing the repeat counts, plus one for the instruction itself
Merged(acc, tick) == [acc EXCEPT !.reps = acc.reps + tick.reps + 1]

\* scan in order: merge into the accumulator while the hold duration is the
\* same, emit the accumulator and start a new one when it differs
RECURSIVE ReduceFrom(_, _)
ReduceFrom(acc, rest) ==
    IF rest = <<>> THEN <<acc>>
    ELSE IF Mergeable(acc, Head(rest))
           THEN ReduceFrom(Merged(acc, Head(rest)), Tail(rest))
           ELSE <<acc>> \o ReduceFrom(Head(rest), Tail(rest))

reduce_clock_instructions(clock) ==
    IF clock = <<>> THEN <<>> ELSE ReduceFrom(Head(clock), Tail(clock))

\* steps of 1 us and 1.5 us in half nanoseconds
ReducerInstructions == [step : {2000, 3000}, reps : 0..2]

ReduceCalls ==
    {[op |-> "reduce_clock_instructions", clock |-> clock] :
        clock \in {<<>>} \cup SeqsUpTo(ReducerInstructions, MaxRun)}

CallReduceClockInstructions ==
    /\ call.op = "reduce_clock_instructions"
    /\ Returned([raised |-> FALSE,
                 returned |-> reduce_clock_instructions(call.clock)])

(***************************************************************************)
(* FPGADevice.generate_code: the loop over the pseudoclocks.  An array is  *)
(* given by its length: clock_len is len(pseudoclock.clock) after          *)
(* reduction and conversion, data_len is len(output.raw_output).  The file *)
(* maps the connection name of a dataset to the length of what was         *)
(* written.                                                                *)
(***************************************************************************)
\* FPGADevice.max_clock_instructions and FPGADevice.max_analog_data
max_clock_instructions == 255
max_analog_data == 65535

EmptyFile == [clocks |-> EmptyDict, analog_data |-> EmptyDict, raised |-> FALSE]

\* variant: the clock is written before its length is tested
WriteChannel_TestAfterWrite(pseudoclock, file) ==
    LET with_clock ==
            [file EXCEPT !.clocks = (pseudoclock.output :> pseudoclock.clock_len) @@ @]
    IN  IF pseudoclock.clock_len > max_clock_instructions
        THEN [with_clock EXCEPT !.raised = TRUE]
        ELSE IF ~pseudoclock.is_analog THEN with_clock
        ELSE IF pseudoclock.data_len > max_analog_data
        THEN [with_clock EXCEPT !.raised = TRUE]
        ELSE [with_clock EXCEPT
                !.analog_data = (pseudoclock.output :> pseudoclock.data_len) @@ @]

\* one pass of the loop body: the length tests and the create_dataset calls
WriteChannel(pseudoclock, file) ==
    IF pseudoclock.clock_len > max_clock_instructions
    THEN [file EXCEPT !.raised = TRUE]
    ELSE LET with_clock ==
                 [file EXCEPT
                    !.clocks = (pseudoclock.output :> pseudoclock.clock_len) @@ @]
         IN  IF ~pseudoclock.is_analog THEN with_clock
             ELSE IF pseudoclock.data_len > max_analog_data
             THEN [with_clock EXCEPT !.raised = TRUE]
             ELSE [with_clock EXCEPT
                     !.analog_data = (pseudoclock.output :> pseudoclock.data_len) @@ @]

\* for i, pseudoclock in enumerate(self.pseudoclocks): a raise ends the loop
RECURSIVE WriteChannels(_, _)
WriteChannels(pseudoclocks, file) ==
    IF pseudoclocks = <<>> \/ file.raised THEN file
    ELSE WriteChannels(Tail(pseudoclocks), WriteChannel(Head(pseudoclocks), file))

generate_code(pseudoclocks) == WriteChannels(pseudoclocks, EmptyFile)

\* an analog and a digital output of a script, declared in either order,
\* with lengths at and around the two limits
AnalogChannels ==
    {[output |-> "ao0", is_analog |-> TRUE, clock_len |-> c, data_len |-> d] :
        c \in {1, 255, 256}, d \in {1, 65535, 65536}}

DigitalChannels ==
    {[output |-> "do0", is_analog |-> FALSE, clock_len |-> c, data_len |-> 0] :
        c \in {2, 255, 256}}

GenerateCodeCalls ==
    {[op |-> "generate_code", pseudoclocks |-> p] :
        p \in (AnalogChannels \X DigitalChannels) \cup (DigitalChannels \X AnalogChannels)}

CallGenerateCode ==
    /\ call.op = "generate_code"
    /\ LET file == generate_code(call.pseudoclocks)
       IN  Returned([raised |-> file.raised,
                     hdf5_file |-> [clocks |-> file.clocks,
                                    analog_data |-> file.analog_data]])

(***************************************************************************)
(* FPGADevice.generate_code: the placeholder outputs.  An output is        *)
(* <<type, channel number>> on board 1, the only board of                  *)
(* boards_configuration.  Every output, a placeholder too, is connected    *)
(* through the `outputs` property, which raises once n_analog + n_digital  *)
(* pseudoclocks exist.                                                     *)
(***************************************************************************)
\* self.boards_configuration[1]: 'analog': range(0, 8), 'digital': range(8, 33)
boards_configuration == [analog |-> 0..7, digital |-> 8..32]

\* the channels of a set in the order the loop visits them
RECURSIVE Ascending(_)
Ascending(channels) ==
    IF channels = {} THEN <<>>
    ELSE LET least == CHOOSE c \in channels : \A d \in channels : c <= d
         IN  <<least>> \o Ascending(channels \ {least})

\* FPGAAnalogOut / FPGADigitalOut(..., self.outputs, board_number,
\* channel_number, group_name="placeholder") for every channel of the list:
\* the `outputs` property raises LabscriptError when n == max_n
RECURSIVE Placeholders(_, _, _, _)
Placeholders(type_, channels, max_n, device) ==
    IF channels = <<>> \/ device.raised THEN device
    ELSE IF device.n_pseudoclocks = max_n
         THEN [device EXCEPT !.raised = TRUE]
         ELSE Placeholders(type_, Tail(channels), max_n,
                  [device EXCEPT !.n_pseudoclocks = @ + 1,
                                 !.placeholders = @ \cup {<<type_, Head(channels)>>}])

\* used_channels: the channel numbers of the outputs of the script, of
\* either type
used_channels(outputs) == {o[2] : o \in outputs}

\* the first lines of generate_code
create_placeholders(n_analog, n_digital, outputs) ==
    LET max_n == n_analog + n_digital
        device == [n_pseudoclocks |-> Cardinality(outputs), placeholders |-> {},
                   raised |-> FALSE]
        analog == Placeholders("analog",
                      Ascending(boards_configuration.analog
                                    \ used_channels(outputs)),
                      max_n, device)
    IN  Placeholders("digital",
            Ascending(boards_configuration.digital \ used_channels(outputs)),
            max_n, analog)

\* the outputs a script declares: each on a channel of its type
ScriptOutputs == SUBSET {<<"analog", 0>>, <<"analog", 1>>, <<"digital", 8>>}

PlaceholderCalls ==
    {[op |-> "create_placeholders", n_analog |-> a, n_digital |-> d, outputs |-> o] :
        a \in {2, 8, 10}, d \in {2, 25, 30}, o \in ScriptOutputs}

CallCreatePlaceholders ==
    /\ call.op = "create_placeholders"
    /\ LET device == create_placeholders(call.n_analog, call.n_digital, call.outputs)
       IN  Returned([raised |-> device.raised, placeholders |-> device.placeholders])

InitCalls ==
    \/ Drawn(PseudoclockCalls)
    \/ Drawn(AnalogDataCalls)
    \/ Drawn(ValueToBytesCalls)
    \/ Drawn(DecodeCalls)
    \/ Drawn(ConvertCalls)
    \/ Drawn(ReduceCalls)
    \/ Drawn(GenerateCodeCalls)
    \/ Drawn(PlaceholderCalls)

NextCalls ==
    \/ CallSendPseudoclock
    \/ CallSendAnalogData
    \/ CallValueToBytes
    \/ CallDecode
    \/ CallConvertToClocksAndToggles
    \/ CallConvertAgain
    \/ CallReduceClockInstructions
    \/ CallGenerateCode
    \/ CallCreatePlaceholders

SpecCalls == InitCalls /\ [][NextCalls]_vars

(***************************************************************************)
(* FPGADeviceTab: start_run, start and status_monitor.  The tab's state    *)
(* functions run one at a time, in the order they were queued; a call of   *)
(* a state function from another one queues it.  A registered timeout      *)
(* queues its function again and again; the model does not measure the     *)
(* interval.  The device puts the shot_finished byte in the receive queue  *)
(* when the shot it was triggered for ends, and ftdi.read_data takes a     *)
(* byte out of that queue.                                                 *)
(***************************************************************************)
MaxRuns == 3
MaxEvents == 3

\* FPGAStates.shot_finished = '\x07'
shot_finished == <<7>>

\* the intervals of statemachine_timeout_add in start_run and status_monitor
FastInterval == 100
SlowInterval == 2000

StatusMonitorEvent(notify) == [function |-> "status_monitor", notify |-> notify]
StartEvent == [function |-> "start", notify |-> FALSE]

\* what the tab does leaves the worker's caches and the script alone
TabOnly ==
    UNCHANGED <<smart_cache, analog_properties, write_buffer, written, enqueued,
                call, cached_before, result, quant, transfers, script, stack>>

\* start_run(notify_queue): the queue manager starts a shot once the one
\* before it was reported done
StartRun ==
    /\ tab.runs < MaxRuns
    /\ Len(tab.notify_queue) = tab.runs
    /\ Len(tab.events) < MaxEvents
    /\ tab' = [tab EXCEPT
                 !.timeout = [interval |-> FastInterval, notify |-> TRUE],
                 !.events = Append(@, StartEvent),
                 !.runs = @ + 1]
    /\ TabOnly

\* start(): the worker's start, then self.status_monitor().  A write that
\* fails raises in the worker and the state function ends there
TabStart ==
    /\ tab.events # <<>>
    /\ Head(tab.events).function = "start"
    /\ \E f \in Faults :
         LET frame == << <<FPGAModes.trigger, 1>> >>
             chunks == BufferChunks(Append(write_buffer, frame), None)
             done == WriteChunks(chunks, FALSE, f[1], f[2])
         IN  /\ f[1] <= Len(chunks)
             /\ InterfaceWrites([op |-> "start"], <<frame>>, <<>>, done)
             /\ tab' = IF Raised(done)
                         THEN [tab EXCEPT !.events = Tail(@)]
                         ELSE [tab EXCEPT
                                 !.events = Append(Tail(@), StatusMonitorEvent(FALSE)),
                                 !.running = TRUE]

\* the timeout registered for status_monitor comes due
TimerFires ==
    /\ tab.timeout # NoTimeout
    /\ Len(tab.events) < MaxEvents
    /\ tab' = [tab EXCEPT !.events = Append(@, StatusMonitorEvent(tab.timeout.notify))]
    /\ TabOnly

\* check_status(): ftdi.read_data(self.c, 1), the next byte the device
\* sent or the empty string
StatusRead(rx) == IF rx = <<>> THEN <<>> ELSE << Head(rx) >>

\* notify_queue is not None and self.status == FPGAStates.shot_finished
Notifies(notify, status) == notify /\ status = shot_finished

\* status_monitor(notify_queue)
StatusMonitor ==
    /\ tab.events # <<>>
    /\ Head(tab.events).function = "status_monitor"
    /\ LET status == StatusRead(tab.rx)
           read == [tab EXCEPT !.events = Tail(@),
                               !.rx = IF @ = <<>> THEN @ ELSE Tail(@)]
       IN  tab' = IF Notifies(Head(tab.events).notify, status)
                    THEN [read EXCEPT
                            !.notify_queue = Append(@, "done"),
                            !.timeout = [interval |-> SlowInterval, notify |-> FALSE]]
                    ELSE read
    /\ TabOnly

\* the shot the device was triggered for ends
ShotEnds ==
    /\ tab.running
    /\ tab' = [tab EXCEPT !.running = FALSE, !.rx = Append(@, shot_finished[1])]
    /\ TabOnly

NextTab ==
    \/ StartRun
    \/ TabStart
    \/ TimerFires
    \/ StatusMonitor
    \/ ShotEnds

\* timers come due, queued state functions are run and shots end
SpecTab ==
    /\ Init
    /\ [][NextTab]_vars
    /\ WF_vars(TabStart)
    /\ WF_vars(TimerFires)
    /\ WF_vars(StatusMonitor)
    /\ WF_vars(ShotEnds)


(***************************************************************************)
(* The objects of a script while it compiles: one OutputIntermediateDevice *)
(* and the waits of the FPGADevice, then the step of generate_code that    *)
(* persists the waits.                                                     *)
(***************************************************************************)
MaxWaits == 3
MaxChildren == 2

\* clock_limit = 30e6
clock_limit == 30000000

ScriptOnly ==
    UNCHANGED <<smart_cache, analog_properties, write_buffer, written, enqueued,
                cached_before, quant, transfers, tab, stack>>

\* the outputs a script connects to the OutputIntermediateDevice
Devices == {"ao0", "ao1", "do0"}

\* variant: a second child is accepted
add_device_NoCheck(oid, device) ==
    [raised |-> FALSE, child_devices |-> Append(oid.child_devices, device),
     output |-> <<device>>]

\* OutputIntermediateDevice.add_device(device); IntermediateDevice.add_device
\* appends an allowed child to child_devices
add_device(oid, device) ==
    IF oid.child_devices # <<>>
      THEN [raised |-> TRUE, child_devices |-> oid.child_devices, output |-> oid.output]
      ELSE [raised |-> FALSE, child_devices |-> Append(oid.child_devices, device),
            output |-> <<device>>]

AddDevice ==
    \E device \in Devices :
        LET after == add_device(script, device)
        IN  /\ script.file = NoFile
            /\ Len(script.child_devices) < MaxChildren
            /\ script' = [script EXCEPT !.child_devices = after.child_devices,
                                        !.output = after.output]
            /\ call' = [op |-> "add_device", device |-> device]
            /\ result' = [NoResult EXCEPT !.raised = after.raised]
            /\ ScriptOnly

\* the comparisons a script writes: one character, or two
Comparisons == {<<">">>, <<"<">>, <<">", "=">>}

\* ord(c) of a string of one character
Ord(c) == IF c = <<">">> THEN Greater ELSE 60

\* the arguments of FPGADevice.wait: an argument that is not given is None.
\* at_time is counted in seconds, value in half volts
WaitArguments ==
    UNION {{[at_time |-> t],
            [at_time |-> t, board_number |-> 1, channel_number |-> 8, value |-> 2]}
           \cup {[at_time |-> t, board_number |-> 1, channel_number |-> 0,
                  value |-> 3, comparison |-> c] : c \in Comparisons} : t \in {1, 2}}

\* x if x is not None else self.null_value
OrNull(args, name) == IF name \in DOMAIN args THEN args[name] ELSE NaN

\* FPGAWait(board_number, channel_number, value, comparison): ord raises
\* TypeError for a string that is not one character
FPGAWait(args) ==
    [raised |-> "comparison" \in DOMAIN args /\ Len(args.comparison) # 1,
     wait |-> [board_number |-> OrNull(args, "board_number"),
               channel_number |-> OrNull(args, "channel_number"),
               value |-> OrNull(args, "value"),
               comparison |-> IF "comparison" \in DOMAIN args
                                THEN Ord(args.comparison) ELSE NaN]]

\* FPGADevice.wait(at_time, board_number, channel_number, value, comparison):
\* self.wait_times.append(at_time * self.clock_limit), then
\* self.waits.append(FPGAWait(...))
wait(device, args) ==
    LET timed == [device EXCEPT !.wait_times = Append(@, args.at_time * clock_limit)]
    IN  IF FPGAWait(args).raised THEN timed
        ELSE [timed EXCEPT !.waits = Append(@, FPGAWait(args).wait),
                           !.at_times = Append(@, args.at_time)]

Wait ==
    \E args \in WaitArguments :
        /\ script.file = NoFile
        /\ Len(script.wait_times) < MaxWaits
        /\ script' = wait(script, args)
        /\ call' = [op |-> "wait", args |-> args]
        /\ result' = [NoResult EXCEPT !.raised = FPGAWait(args).raised]
        /\ ScriptOnly

\* group.create_dataset(name, data): a name the group already holds is an
\* error
create_dataset(file, group, name, data) ==
    IF \E k \in 1..Len(file[group]) : file[group][k][1] = name
      THEN [file EXCEPT !.raised = TRUE]
      ELSE [file EXCEPT ![group] = Append(@, <<name, data>>)]

\* "wait{}".format(i): when the name is formatted i is no longer the index of
\* enumerate but the last value of the i of the list comprehension over
\* range(4) that builds dtype
WaitDatasetName(i) == <<"wait", 3>>

\* for i, wait in enumerate(self.waits): ... waits_group.create_dataset(...)
RECURSIVE PersistWaits(_, _, _)
PersistWaits(waits, i, file) ==
    IF i >= Len(waits) \/ file.raised THEN file
    ELSE PersistWaits(waits, i + 1,
             create_dataset(file, "waits", WaitDatasetName(i), waits[i + 1]))

\* for i, wait in enumerate(self.wait_times):
\*     wait_times_group.create_dataset("wait_times", data=wait_times)
RECURSIVE PersistWaitTimes(_, _, _)
PersistWaitTimes(wait_times, i, file) ==
    IF i >= Len(wait_times) \/ file.raised THEN file
    ELSE PersistWaitTimes(wait_times, i + 1,
             create_dataset(file, "wait_times", <<"wait_times">>, wait_times))

\* the step of generate_code that persists the waits
persist_waits(device) ==
    PersistWaitTimes(device.wait_times, 0,
        PersistWaits(device.waits, 0, [NoFile EXCEPT !.persisted = TRUE]))

GenerateCodeWaits ==
    /\ script.file = NoFile
    /\ script' = [script EXCEPT !.file = persist_waits(script)]
    /\ call' = [op |-> "generate_code"]
    /\ result' = [NoResult EXCEPT !.raised = persist_waits(script).raised]
    /\ ScriptOnly

NextScript ==
    \/ AddDevice
    \/ Wait
    \/ GenerateCodeWaits

SpecScript == Init /\ [][NextScript]_vars

(***************************************************************************)
(* send_bytes, send_value and send_buffer statement by statement: the      *)
(* calls under way are frames of `stack`.  A frame holds the function, its *)
(* arguments and locals, and the statement it resumes at.                  *)
(***************************************************************************)
\* the byte strings of the calls of the model
ByteStrings == {<<255>>, <<1, 2, 3>>}

SendBytesFrame(bytes_, is_buffered) ==
    [fn |-> "send_bytes", bytes_ |-> bytes_, buffered |-> is_buffered, pc |-> "start"]

SendValueFrame(value, n_bytes, is_buffered) ==
    [fn |-> "send_value", value |-> value, n_bytes |-> n_bytes,
     buffered |-> is_buffered, pc |-> "start"]

SendBufferFrame(chunksize, delay) ==
    [fn |-> "send_buffer", chunksize |-> chunksize, delay |-> delay, pc |-> "start",
     byte_sequence |-> <<>>, i |-> 0]

\* the calls made from outside the interface
InterfaceEntries ==
    {SendBytesFrame(b, is_buffered) : b \in ByteStrings, is_buffered \in BOOLEAN}
        \cup {SendValueFrame(7, 2, is_buffered) : is_buffered \in BOOLEAN}
        \cup {SendBufferFrame(c, d) : c \in {None} \cup ChunkSizes, d \in {None, DataDelay}}

Top == stack[Len(stack)]
Popped == SubSeq(stack, 1, Len(stack) - 1)

\* the interpreter's limit on the depth of the calls
MaxDepth == 6
Deeper == Len(stack) < MaxDepth

StackOnly ==
    UNCHANGED <<smart_cache, analog_properties, written, enqueued, cached_before,
                quant, tab, script>>

\* a caller of the interface makes a call
Enter ==
    \E frame \in InterfaceEntries :
        /\ stack = <<>>
        /\ (frame.fn # "send_buffer" /\ frame.buffered) => Len(write_buffer) < MaxBuffered
        /\ stack' = << frame >>
        /\ call' = [op |-> frame.fn, frame |-> frame]
        /\ result' = NoResult
        /\ transfers' = <<>>
        /\ UNCHANGED write_buffer
        /\ StackOnly

\* send_value: bytes_ = value_to_bytes(value, length=n_bytes); if buffered,
\* self.write_buffer.append(bytes_); else self.send_buffer(), then
\* return self.send_bytes(bytes_, buffered=False)
SendValueStep ==
    /\ stack # <<>>
    /\ Top.fn = "send_value"
    /\ Deeper
    /\ IF Top.pc = "start" /\ Top.buffered
         THEN /\ write_buffer' = Append(write_buffer, << <<Top.value, Top.n_bytes>> >>)
              /\ stack' = Popped
         ELSE /\ UNCHANGED write_buffer
              /\ stack' =
                   IF Top.pc = "start"
                     THEN Append(Popped \o << [Top EXCEPT !.pc = "send"] >>,
                                 SendBufferFrame(None, None))
                   ELSE IF Top.pc = "send"
                     THEN Append(Popped \o << [Top EXCEPT !.pc = "return"] >>,
                                 SendBytesFrame(value_to_bytes(Top.value, Top.n_bytes),
                                                FALSE))
                   ELSE Popped
    /\ UNCHANGED <<transfers, call, result>>
    /\ StackOnly

\* send_bytes: if buffered, self.write_buffer.append(bytes_) and return;
\* else self.send_buffer() and go on at ftdi.write_data
SendBytesStep ==
    /\ stack # <<>>
    /\ Top.fn = "send_bytes"
    /\ Top.pc = "start"
    /\ Deeper
    /\ IF Top.buffered
         THEN /\ write_buffer' = Append(write_buffer,
                                        [k \in 1..Len(Top.bytes_) |-> <<Top.bytes_[k], 1>>])
              /\ stack' = Popped
         ELSE /\ stack' = Append(Popped \o << [Top EXCEPT !.pc = "write"] >>,
                                 SendBufferFrame(None, None))
              /\ UNCHANGED write_buffer
    /\ UNCHANGED <<transfers, call, result>>
    /\ StackOnly

\* n_bytes_written = ftdi.write_data(self.c, bytes_, len(bytes_)); FTDIError
\* when fewer bytes were accepted, which no caller catches
WriteData ==
    /\ stack # <<>>
    /\ Top.fn = "send_bytes"
    /\ Top.pc = "write"
    /\ \E fault \in {"none", "short", "status"} :
         IF fault = "none"
           THEN /\ transfers' = Append(transfers,
                                       Transfer(Top.bytes_, Len(Top.bytes_), FALSE))
                /\ stack' = Popped
                /\ UNCHANGED result
           ELSE /\ transfers' = Append(transfers,
                                       Transfer(Top.bytes_,
                                                Accepted(Len(Top.bytes_), fault), FALSE))
                /\ stack' = <<>>
                /\ result' = [NoResult EXCEPT !.raised = TRUE]
    /\ UNCHANGED <<write_buffer, call>>
    /\ StackOnly

\* variant: the buffer is cleared after the bytes were sent
buffer_after_join_Kept(buffer) == buffer

\* self.write_buffer = []  # clear the buffer
buffer_after_join(buffer) == <<>>

\* send_buffer: nothing to do for an empty write_buffer; else join, clear
\* the buffer, and either start the loop over the chunks or
\* return self.send_bytes(byte_sequence, buffered=False)
SendBufferStep ==
    /\ stack # <<>>
    /\ Top.fn = "send_buffer"
    /\ Top.pc = "start"
    /\ Deeper
    /\ IF write_buffer = <<>>
         THEN /\ stack' = Popped
              /\ UNCHANGED write_buffer
         ELSE /\ write_buffer' = buffer_after_join(write_buffer)
              /\ IF Top.chunksize # None
                   THEN stack' = Popped \o
                            << [Top EXCEPT !.pc = "loop",
                                           !.byte_sequence = BufferBytes(write_buffer)] >>
                   ELSE stack' = Append(
                            Popped \o
                              << [Top EXCEPT !.pc = "return",
                                             !.byte_sequence = BufferBytes(write_buffer)] >>,
                            SendBytesFrame(BufferBytes(write_buffer), FALSE))
    /\ UNCHANGED <<transfers, call, result>>
    /\ StackOnly

\* byte_sequence[i * chunksize:(i + 1) * chunksize]
Slice(byte_sequence, i, chunksize) ==
    SubSeq(byte_sequence, i * chunksize + 1,
           IF (i + 1) * chunksize < Len(byte_sequence)
             THEN (i + 1) * chunksize ELSE Len(byte_sequence))

\* for i in range(n_chunks): sub_seq = ...; if sub_seq:
\* self.send_bytes(sub_seq, buffered=False)
ChunkLoop ==
    /\ stack # <<>>
    /\ Top.fn = "send_buffer"
    /\ Top.pc = "loop"
    /\ Deeper
    /\ LET sub_seq == Slice(Top.byte_sequence, Top.i, Top.chunksize)
       IN  IF Top.i >= n_chunks(Len(Top.byte_sequence), Top.chunksize)
             THEN stack' = Popped
             ELSE IF sub_seq # <<>>
               THEN stack' = Append(Popped \o << [Top EXCEPT !.pc = "sleep", !.i = @ + 1] >>,
                                    SendBytesFrame(sub_seq, FALSE))
               ELSE stack' = Popped \o << [Top EXCEPT !.i = @ + 1] >>
    /\ UNCHANGED <<write_buffer, transfers, call, result>>
    /\ StackOnly

\* if delay is not None: time.sleep(delay)
Sleep ==
    /\ stack # <<>>
    /\ Top.fn = "send_buffer"
    /\ Top.pc = "sleep"
    /\ stack' = Popped \o << [Top EXCEPT !.pc = "loop"] >>
    /\ transfers' = [transfers EXCEPT ![Len(transfers)].slept = Top.delay # None]
    /\ UNCHANGED <<write_buffer, call, result>>
    /\ StackOnly

\* the return of send_buffer after its send_bytes returned
Return ==
    /\ stack # <<>>
    /\ Top.fn = "send_buffer"
    /\ Top.pc = "return"
    /\ stack' = Popped
    /\ UNCHANGED <<write_buffer, transfers, call, result>>
    /\ StackOnly

\* the statements of a call under way
Step ==
    \/ SendValueStep
    \/ SendBytesStep
    \/ WriteData
    \/ SendBufferStep
    \/ ChunkLoop
    \/ Sleep
    \/ Return

NextStack ==
    \/ Enter
    \/ SendValueStep
    \/ SendBytesStep
    \/ WriteData
    \/ SendBufferStep
    \/ ChunkLoop
    \/ Sleep
    \/ Return

\* a call under way goes on: the interface is used from one thread
SpecStack == Init /\ [][NextStack]_vars /\ WF_vars(Step)

(***************************************************************************)
(* Vocabulary of the claims.                                               *)
(***************************************************************************)
\* the dataset `new` of output o is not the one the cache holds for o
Differs(new, cached, o) == o \notin DOMAIN cached \/ new # cached[o]

\* the cache entry of o (or its absence) is the same in c2 as in c1
SameEntry(c1, c2, o) ==
    /\ o \in DOMAIN c1 <=> o \in DOMAIN c2
    /\ o \in DOMAIN c1 => c1[o] = c2[o]

BufferedDone == call.op = "transition_to_buffered" /\ ~result.raised

\* C1: in a shot that completes, a pseudoclock frame (an analog data frame)
\* of an output is enqueued if and only if fresh_program is set or the tick
\* sequence (sample array) of the shot is not the cached one
C1_SendsExactlyWhatChanged ==
    [][(call'.op = "transition_to_buffered" /\ ~result'.raised) =>
        \A o \in Outputs :
            /\ HasFrame(enqueued', FPGAModes.pseudoclock, o)
                 <=> (call'.fresh_program
                        \/ Differs(call'.shot.clocks[o], smart_cache.clocks, o))
            /\ o \in AnalogOutputs =>
                 (HasFrame(enqueued', FPGAModes.data, o)
                    <=> (call'.fresh_program
                           \/ Differs(call'.shot.analog_data[o], smart_cache.data, o)))
      ]_vars

\* C2: when a write fails during transition_to_buffered, the cache entry of
\* every output whose pseudoclock (data) frame did not reach the device is
\* what it was before the call
C2_FailedWriteKeepsCache ==
    [][(call'.op = "transition_to_buffered" /\ result'.raised) =>
        \A o \in Outputs :
            /\ ~HasFrame(written', FPGAModes.pseudoclock, o)
                 => SameEntry(smart_cache.clocks, smart_cache'.clocks, o)
            /\ (o \in AnalogOutputs /\ ~HasFrame(written', FPGAModes.data, o))
                 => SameEntry(smart_cache.data, smart_cache'.data, o)
      ]_vars

\* C3: the first transition_to_buffered after init (both caches empty)
\* enqueues a pseudoclock frame for every output of the shot and, unless a
\* write of the call fails, a data frame for every analog output, and writes
\* them to the device, whatever fresh_program is
C3_FirstShotSendsAll ==
    (call.op = "transition_to_buffered"
        /\ cached_before.clocks = {} /\ cached_before.data = {}) =>
        /\ \A o \in Outputs : HasFrame(enqueued, FPGAModes.pseudoclock, o)
        /\ ~result.raised =>
             /\ \A o \in AnalogOutputs : HasFrame(enqueued, FPGAModes.data, o)
             /\ written = enqueued

C3_Witness ==
    /\ BufferedDone
    /\ cached_before.clocks = {} /\ cached_before.data = {}
    /\ ~call.fresh_program
    /\ \A o \in Outputs : HasFrame(written, FPGAModes.pseudoclock, o)
    /\ \A o \in AnalogOutputs : HasFrame(written, FPGAModes.data, o)

C5_DigitalFinalStateIsXor ==
    BufferedDone =>
        \A o \in DigitalOutputs :
            LET clock == call.shot.clocks[o]
                level == clock[1][2]
                toggles == SumToggles(Tail(clock))
            IN  /\ result.final_state[o] \in {0, 1}
                /\ result.final_state[o] = (level + toggles) % 2

\* C6: final_state holds every analog output of the shot with the last
\* sample of its array, whether or not its data frame was sent in this shot
C6_AnalogFinalStateIsLastSample ==
    BufferedDone =>
        \A o \in AnalogOutputs :
            /\ o \in DOMAIN result.final_state
            /\ result.final_state[o]
                 = call.shot.analog_data[o][Len(call.shot.analog_data[o])]

(***************************************************************************)
(* The last application of the quantizer, as its callers read it:          *)
(* quantized_value, DAC_data = quantize_analog_value(...)                  *)
(***************************************************************************)
QuantCode == quant.ret[2]

QuantCoerced ==
    IF quant.value > quant.range_max \/ quant.value < quant.range_min
      THEN Fine(2 * quant.ret[1])
      ELSE Voltage(quant.ret[1])

QuantInRange == quant.range_min <= quant.value /\ quant.value <= quant.range_max

\* the quantizer was applied to a range with range_min < range_max
QuantApplied == quant.applied /\ quant.range_min < quant.range_max

\* C7: a value above range_max gives code 65535 and coerced value range_max
C7_AboveRangeClampsToMax ==
    (QuantApplied /\ quant.value > quant.range_max) =>
        /\ QuantCode = DACMax
        /\ QuantCoerced = Fine(quant.range_max)

\* C8: a value below range_min gives code 0 and coerced value range_min
C8_BelowRangeClampsToMin ==
    (QuantApplied /\ quant.value < quant.range_min) =>
        /\ QuantCode = 0
        /\ QuantCoerced = Fine(quant.range_min)

\* C9: for a value inside the range the coerced value is the voltage the
\* code stands for, range_min + code * step
C9_CoercedIsVoltageOfCode ==
    (QuantApplied /\ QuantInRange) =>
        QuantCoerced
          = Voltage(quant.range_min * DACMax
                      + QuantCode * (quant.range_max - quant.range_min))

\* C10: for a value inside the range the code is within 0 .. 65535 and no
\* smaller value of the range gets a larger code
C10_CodeBoundedAndMonotonic ==
    (QuantApplied /\ QuantInRange) =>
        /\ 0 <= QuantCode /\ QuantCode <= DACMax
        /\ \A v \in Volts :
             (quant.range_min <= v /\ v <= quant.value)
                => CodeOf(v, quant.range_min, quant.range_max) <= QuantCode

\* an inner value of a range below zero whose code lies strictly between
\* the codes of the two ends of the range
C10_Witness ==
    /\ QuantApplied
    /\ quant.range_min < 0
    /\ quant.range_min < quant.value /\ quant.value < quant.range_max
    /\ CodeOf(quant.range_min, quant.range_min, quant.range_max) < QuantCode
    /\ QuantCode < CodeOf(quant.range_max, quant.range_min, quant.range_max)

\* C11: with range_max == range_min the quantizer reports a configuration
\* error for every value: it neither returns a pair nor fails with an
\* arithmetic error of the interpreter
C11_DegenerateRangeIsReported ==
    (quant.applied /\ quant.range_min = quant.range_max) =>
        quant.error \notin {"none", "ZeroDivisionError"}

(***************************************************************************)
(* The frame send_wait_info enqueued for the wait of the last shot: the    *)
(* wait frames are followed by the wait_times frame, which is the last.    *)
(***************************************************************************)
WaitSent ==
    /\ BufferedDone
    /\ call.shot.waits # <<>>

TheWait == call.shot.waits[1]

WaitFrame == enqueued[Len(enqueued) - 1]

Absent(field) == field = NaN

\* C12: a wait without comparison and without board number is enqueued as
\* three bytes, the first of which is the pc_wait mode identifier
C12_PCWaitFrame ==
    (WaitSent /\ Absent(TheWait.comparison) /\ Absent(TheWait.board_number)) =>
        /\ Len(FrameBytes(WaitFrame)) = 3
        /\ FrameBytes(WaitFrame)[1] = FPGAModes.pc_wait

\* C13: a wait without comparison whose board and channel are given is
\* enqueued as the three bytes board, channel, value (the level)
C13_DigitalWaitFrame ==
    (WaitSent /\ Absent(TheWait.comparison) /\ ~Absent(TheWait.board_number)
        /\ ~Absent(TheWait.channel_number)) =>
        FrameBytes(WaitFrame)
          = <<TheWait.board_number, TheWait.channel_number, TheWait.value \div 2>>

\* the value of a byte sequence read as a big-endian number
RECURSIVE BigEndianValue(_)
BigEndianValue(bytes) ==
    IF bytes = <<>> THEN 0
    ELSE 256 * BigEndianValue(SubSeq(bytes, 1, Len(bytes) - 1)) + bytes[Len(bytes)]

\* the 16-bit code of a sample for a range: 0 at and below range_min, 65535
\* at and above range_max, the nearest step in between
CodeFor(value, range_min, range_max) ==
    IF value >= range_max THEN DACMax
    ELSE IF value <= range_min THEN 0
    ELSE PyRound((value - range_min) * DACMax, range_max - range_min)

\* C14: a wait with a comparison is enqueued as six bytes: the analog_wait
\* mode identifier, board, channel, the code of the threshold for the range
\* 0 V .. 5 V as two bytes, whatever range the channel is configured for,
\* and the comparison
C14_AnalogWaitFrame ==
    (WaitSent /\ ~Absent(TheWait.comparison)) =>
        LET bytes == FrameBytes(WaitFrame)
        IN  /\ Len(bytes) = 6
            /\ bytes[1] = FPGAModes.analog_wait
            /\ bytes[2] = TheWait.board_number
            /\ bytes[3] = TheWait.channel_number
            /\ BigEndianValue(SubSeq(bytes, 4, 5)) = CodeFor(TheWait.value, 0, 10)
            /\ bytes[6] = TheWait.comparison

(***************************************************************************)
(* Vocabulary of the claims about the interface.                           *)
(***************************************************************************)
RECURSIVE ShiftRight(_, _)
ShiftRight(v, n) == IF n = 0 THEN v ELSE ShiftRight(v \div 256, n - 1)

\* the n bytes of v, the most significant first
BigEndian(v, n) == [k \in 1..n |-> ShiftRight(v, n - k) % 256]

\* the bytes of the transfers of the last call, one after the other
RECURSIVE Joined(_)
Joined(done) ==
    IF done = <<>> THEN <<>> ELSE Head(done).bytes \o Joined(Tail(done))

\* the calls that enqueue with buffered = True
BufferedOps ==
    {"send_value", "send_bytes", "send_pseudoclock", "send_analog_data",
     "send_realtime_value", "send_wait_info", "send_wait_times",
     "send_repeats_and_period"}

\* the calls that execute send_buffer or an unbuffered send
FlushingOps == {"send_buffer", "send_value_unbuffered", "start", "send_output_range"}

\* C15: send_wait_times(times) enqueues 1 + 8 * len(times) bytes: the
\* wait_times mode identifier, then for every time, in the order of the
\* list, its integer part as 8 bytes, the most significant first
C15_WaitTimesFrame ==
    call.op = "send_wait_times" =>
        LET bytes == FrameBytes(enqueued[1])
            times == call.times
        IN  /\ Len(bytes) = 1 + 8 * Len(times)
            /\ bytes[1] = FPGAModes.wait_times
            /\ \A i \in 1..Len(times) :
                 \E ticks \in 0..times[i] :
                    /\ 2 * ticks <= times[i] /\ times[i] < 2 * ticks + 2
                    /\ SubSeq(bytes, 8 * i - 6, 8 * i + 1) = BigEndian(ticks, 8)

\* two times that are not in ascending order, one of them longer than a byte
C15_Witness ==
    /\ call.op = "send_wait_times"
    /\ Len(call.times) = 2
    /\ call.times[1] > call.times[2]
    /\ call.times[1] > 2 * 255
    /\ write_buffer[Len(write_buffer)] = enqueued[1]

\* C16: a buffered call makes no transfer and appends its bytes to the
\* write buffer; a transfer is made only by a call that executes
\* send_buffer or an unbuffered send
C16_BufferedCallsWriteNothing ==
    [][/\ call'.op \in BufferedOps =>
            /\ transfers' = <<>>
            /\ BufferBytes(write_buffer') = BufferBytes(write_buffer)
                                               \o BufferBytes(enqueued')
       /\ transfers' # <<>> => call'.op \in FlushingOps
      ]_vars

\* a second buffered call in a row: the bytes of both are in the buffer
C16_Witness ==
    /\ call.op \in BufferedOps
    /\ transfers = <<>>
    /\ Len(write_buffer) >= 2
    /\ Len(BufferBytes(write_buffer)) > Len(BufferBytes(enqueued))

\* C17: a send_buffer with a chunk size in which no transfer goes wrong
\* writes the buffered bytes in their order, in transfers that are not
\* empty and hold chunksize bytes each, the last one at most chunksize,
\* sleeps after each transfer if and only if a delay is given, and leaves
\* the write buffer empty
C17_ChunkedFlush ==
    [][(call'.op = "send_buffer" /\ call'.chunksize # None /\ ~result'.raised) =>
        /\ Joined(transfers') = BufferBytes(write_buffer)
        /\ \A i \in 1..Len(transfers') :
             /\ Len(transfers'[i].bytes) >= 1
             /\ Len(transfers'[i].bytes) <= call'.chunksize
             /\ i < Len(transfers') => Len(transfers'[i].bytes) = call'.chunksize
             /\ transfers'[i].accepted = Len(transfers'[i].bytes)
             /\ transfers'[i].slept <=> call'.delay # None
        /\ write_buffer' = <<>>
      ]_vars

\* a flush with a delay whose last chunk is shorter than half a chunk, so
\* that len / chunksize is rounded down
C17_Witness ==
    /\ call.op = "send_buffer" /\ call.chunksize # None /\ call.delay # None
    /\ ~result.raised
    /\ Len(transfers) >= 3
    /\ 2 * Len(transfers[Len(transfers)].bytes) < call.chunksize
    /\ \A i \in 1..Len(transfers) : transfers[i].slept
    /\ write_buffer = <<>>

\* C18: a transfer of which the device accepted less than it was given
\* raises FTDIError, is the last transfer of the call (no retry, no later
\* chunk), and the write buffer is empty
C18_ShortWriteRaises ==
    \A i \in 1..Len(transfers) :
        transfers[i].accepted < Len(transfers[i].bytes) =>
            /\ result.raised
            /\ i = Len(transfers)
            /\ write_buffer = <<>>

\* the second chunk of a flush of more than two chunks is accepted in part
C18_Witness ==
    /\ call.op = "send_buffer" /\ call.chunksize # None
    /\ call.length > 2 * call.chunksize
    /\ result.raised
    /\ Len(transfers) = 2
    /\ transfers[1].accepted = Len(transfers[1].bytes)
    /\ transfers[2].accepted >= 1
    /\ transfers[2].accepted < Len(transfers[2].bytes)
    /\ write_buffer = <<>>

\* C19: when reset() or start() returns, its mode byte is the last byte
\* written to the device and the write buffer is empty
C19_ResetAndStartFlush ==
    (call.op \in {"start", "reset"} /\ ~result.raised) =>
        /\ write_buffer = <<>>
        /\ transfers # <<>>
        /\ LET bytes == Joined(transfers)
           IN  bytes[Len(bytes)] = (IF call.op = "start" THEN FPGAModes.trigger
                                    ELSE FPGAModes.reset)

\* C20: when send_output_range returns, the device was given the bytes that
\* were buffered before the call followed by the four bytes output_range
\* mode identifier, board, channel, range index, and the write buffer is
\* empty
C20_OutputRangeWrittenAtOnce ==
    [][(call'.op = "send_output_range" /\ ~result'.raised) =>
        /\ Joined(transfers')
             = BufferBytes(write_buffer)
                 \o <<FPGAModes.output_range, call'.board_number,
                      call'.channel_number, call'.output_range>>
        /\ \A i \in 1..Len(transfers') :
             transfers'[i].accepted = Len(transfers'[i].bytes)
        /\ write_buffer' = <<>>
      ]_vars

\* a range change that found bytes in the write buffer
C20_Witness ==
    /\ call.op = "send_output_range" /\ ~result.raised
    /\ Len(Joined(transfers)) > 4
    /\ write_buffer = <<>>

(***************************************************************************)
(* Vocabulary of the claims about single calls.                            *)
(***************************************************************************)
\* the call drawn has been made and has enqueued its frame
Enqueued(op) == call.op = op /\ Len(enqueued) = 1

TheFrame == FrameBytes(enqueued[1])

C22_AnalogDataFrame ==
    Enqueued("send_analog_data") =>
        /\ Len(TheFrame) = 5 + 4 * Len(call.data)
        /\ SubSeq(TheFrame, 1, 3) = <<2, call.board_number, call.channel_number>>
        /\ SubSeq(TheFrame, 4, 5) = BigEndian(Len(call.data), 2)
        /\ \A k \in 1..Len(call.data) :
             /\ SubSeq(TheFrame, 4 * k + 2, 4 * k + 3) = BigEndian(k - 1, 2)
             /\ SubSeq(TheFrame, 4 * k + 4, 4 * k + 5)
                  = BigEndian(CodeFor(call.data[k], call.range[1], call.range[2]), 2)

\* the call drawn has returned
HasReturned(op) == call.op = op /\ result # NoResult /\ ~result.raised

\* C23: for i >= 0 and n >= 1 value_to_bytes(i, n) returns n bytes; when
\* i < 256^n they are i written big-endian with leading zero bytes, and
\* decoding them gives i; when i >= 256^n they are what is left of the
\* digits of i after cutting them to n bytes, the leading n digits
C23_ValueToBytesWidth ==
    HasReturned("value_to_bytes") =>
        LET i == call.i
            n == call.length
        IN  /\ Len(result.returned) = n
            /\ ShiftRight(i, n) = 0 =>
                 /\ result.returned = BigEndian(i, n)
                 /\ BigEndianValue(result.returned) = i
            /\ ShiftRight(i, n) > 0 =>
                 \E cut \in 1..4 :
                    /\ ShiftRight(i, n + cut) = 0
                    /\ ShiftRight(i, n + cut - 1) > 0
                    /\ result.returned = BigEndian(ShiftRight(i, cut), n)

\* a number that does not fit the width, and one that is padded
C23_Witness ==
    /\ HasReturned("value_to_bytes")
    /\ \/ call.i = 65536 /\ call.length = 2 /\ result.returned = <<1, 0>>
       \/ call.i = 257 /\ call.length = 3 /\ result.returned = <<0, 1, 1>>

\* the call drawn has been made: it returned or raised
Made(op) == call.op = op /\ result # NoResult

\* the token of a connection tuple
TokenOf(t) ==
    OutputConnectionName(t.output_type, t.board_number, t.channel_number,
                         t.group_name)

\* C24: decoding the name made from an output type, a board, a channel and
\* a group gives back exactly these four, also for the default group None
\* and for a group name with an underscore, and no other four give the
\* same name
C24_ConnectionNameRoundTrip ==
    Made("decode") =>
        /\ ~result.raised
        /\ result.returned = call.connection
        /\ \A t \in ConnectionTuples :
             TokenOf(t) = result.name => t = call.connection

\* the encoder has returned the ticks of a digital channel
Encoded ==
    /\ HasReturned("convert_to_clocks_and_toggles")
    /\ call.output.is_digital

\* round(hold_duration * clock_frequency) - 1 for an instruction, as an
\* n_clocks value
CyclesToHold(tick) ==
    <<RoundNat(tick.step, 2 * Pow10(call.clock_resolution - call.clock_limit)), 0>>

\* the instruction the tick at position j was derived from: the first one
\* for the first two ticks
InstructionOf(j) == call.clock[IF j = 1 THEN 1 ELSE j - 1]

\* C25: every tick of a digital channel, the initial-state tick included,
\* has cycle_count = round(hold_duration * clock_frequency) - 1 for the
\* instruction it was derived from
C25_CycleCountOfEveryTick ==
    Encoded =>
        \A j \in 1..Len(result.returned) :
            result.returned[j].n_clocks = CyclesToHold(InstructionOf(j))

\* C26: n instructions on a digital channel give n + 1 ticks; the first
\* carries the initial level as its toggle count, the second the repeat
\* count of the first instruction less one, every later one the repeat
\* count of its instruction; and the instruction (1 s, 4 repetitions) at
\* 1 MHz from level 0 gives (999999, 0), (999999, 3)
C26_TicksAndToggles ==
    Encoded =>
        LET ticks == result.returned
            n == Len(call.clock)
        IN  /\ Len(ticks) = n + 1
            /\ ticks[1].toggles = call.output.raw_output[1]
            /\ ticks[2].toggles = call.clock[1].reps - 1
            /\ \A k \in 2..n : ticks[k + 1].toggles = call.clock[k].reps
            /\ (/\ call.clock = << [step |-> 2000000000, reps |-> 4] >>
                /\ call.clock_limit = 6
                /\ call.output.raw_output = <<0>>)
                 => ticks = << [n_clocks |-> <<1000000, 0>>, toggles |-> 0],
                               [n_clocks |-> <<1000000, 0>>, toggles |-> 3] >>

\* a XOR b of Python for integers a, b >= 0
RECURSIVE BitXor(_, _)
BitXor(a, b) ==
    IF a = 0 /\ b = 0 THEN 0
    ELSE (((a % 2) + (b % 2)) % 2) + 2 * BitXor(a \div 2, b \div 2)

\* C27: for every digital output the toggle counts of all the ticks of the
\* clock record the handler read, summed and taken mod 2, equal
\* final_state XOR initial level, final_state being what
\* transition_to_buffered returned for the output
C27_ToggleParityIsFinalXorInitial ==
    BufferedDone =>
        \A o \in DigitalOutputs :
            LET clock == call.shot.clocks[o]
                total == SumToggles(clock)
            IN  total % 2 = BitXor(result.final_state[o], clock[1][2])

\* C28: reducing a reduced sequence changes nothing, and no two
\* consecutive instructions of a reduced sequence have the same hold
\* duration
C28_ReduceIdempotent ==
    HasReturned("reduce_clock_instructions") =>
        LET reduced == result.returned
        IN  /\ reduce_clock_instructions(reduced) = reduced
            /\ \A k \in 1..(Len(reduced) - 1) : reduced[k].step # reduced[k + 1].step

\* a sequence with a run that was merged and a step that follows it
C28_Witness ==
    /\ HasReturned("reduce_clock_instructions")
    /\ Len(call.clock) = 3
    /\ Len(result.returned) = 2
    /\ call.clock[1].step = call.clock[2].step

\* the time a sequence of instructions takes: every step held reps + 1 times
RECURSIVE TotalTime(_)
TotalTime(clock) ==
    IF clock = <<>> THEN 0
    ELSE (Head(clock).reps + 1) * Head(clock).step + TotalTime(Tail(clock))

\* C29: the reduced sequence takes the time the input takes, the sum of
\* (repeat_count + 1) * hold_duration over the instructions
C29_ReducePreservesTime ==
    HasReturned("reduce_clock_instructions") =>
        TotalTime(result.returned) = TotalTime(call.clock)

\* three instructions of one step merged into one
C29_Witness ==
    /\ HasReturned("reduce_clock_instructions")
    /\ Len(call.clock) = 3
    /\ Len(result.returned) = 1
    /\ result.returned[1].reps
         = call.clock[1].reps + call.clock[2].reps + call.clock[3].reps + 2

\* a channel generate_code must refuse
ClockTooLong(pseudoclock) == pseudoclock.clock_len > 255
DataTooLong(pseudoclock) == pseudoclock.is_analog /\ pseudoclock.data_len > 65535
Offending(i) == ClockTooLong(call.pseudoclocks[i]) \/ DataTooLong(call.pseudoclocks[i])

\* C30: the file generate_code leaves holds no clock of more than 255
\* instructions and no sample array of more than 65535 samples, so that the
\* one-byte and two-byte counts of their frames are their lengths; it
\* raises exactly when a channel exceeds a limit, and the dataset of the
\* first such channel that exceeds the limit is not in the file
C30_LimitsCheckedBeforeWriting ==
    Made("generate_code") =>
        LET file == result.hdf5_file
            channels == call.pseudoclocks
        IN  /\ \A o \in DOMAIN file.clocks :
                 /\ file.clocks[o] <= 255
                 /\ BigEndianValue(value_to_bytes(file.clocks[o], 1)) = file.clocks[o]
            /\ \A o \in DOMAIN file.analog_data :
                 /\ file.analog_data[o] <= 65535
                 /\ BigEndianValue(value_to_bytes(file.analog_data[o], 2))
                      = file.analog_data[o]
            /\ result.raised <=> \E i \in 1..Len(channels) : Offending(i)
            /\ \A i \in 1..Len(channels) :
                 (Offending(i) /\ \A j \in 1..(i - 1) : ~Offending(j)) =>
                    /\ channels[i].output \notin DOMAIN file.analog_data
                    /\ ClockTooLong(channels[i]) =>
                         channels[i].output \notin DOMAIN file.clocks
            /\ ~result.raised =>
                 \A i \in 1..Len(channels) :
                    /\ file.clocks[channels[i].output] = channels[i].clock_len
                    /\ channels[i].is_analog =>
                         file.analog_data[channels[i].output] = channels[i].data_len

\* the second channel has a clock of 256 instructions: the first channel,
\* at both limits, is in the file and the second is not
C30_Witness ==
    /\ Made("generate_code")
    /\ result.raised
    /\ call.pseudoclocks[1].clock_len = 255
    /\ call.pseudoclocks[1].data_len = 65535
    /\ call.pseudoclocks[2].clock_len = 256
    /\ DOMAIN result.hdf5_file.clocks = {call.pseudoclocks[1].output}
    /\ DOMAIN result.hdf5_file.analog_data = {call.pseudoclocks[1].output}

(***************************************************************************)
(* Vocabulary of the claims about the tab.                                 *)
(***************************************************************************)
\* a run is under way: started and not yet reported done
RunUnderWay == Len(tab.notify_queue) < tab.runs

\* while a run is under way the status timeout is the fast one with the
\* notify queue; once 'done' was put it is the slow one without; and 'done'
\* is never put more often than runs were started
PollFollowsRun ==
    /\ RunUnderWay => tab.timeout = [interval |-> 100, notify |-> TRUE]
    /\ (tab.runs > 0 /\ ~RunUnderWay) =>
          tab.timeout = [interval |-> 2000, notify |-> FALSE]
    /\ Len(tab.notify_queue) <= tab.runs

\* C31: after start_run the only status poll is the fast one with the
\* notify queue; the poll that reads shot_finished puts 'done' and installs
\* the slow poll without a queue; 'done' is put once per run; and once the
\* device has reported shot_finished, 'done' is eventually put for the run
C31_DoneOncePerRun ==
    /\ []PollFollowsRun
    /\ (tab.rx # <<>>) ~> ~RunUnderWay

\* the physical channels of the device
ConfiguredChannels == ({"analog"} \X (0..7)) \cup ({"digital"} \X (8..32))

\* C32: whatever n_analog and n_digital are and whatever outputs the script
\* declares, generate_code creates a placeholder for every channel of the
\* device no output of the script uses and for no other, so that every
\* channel has exactly one output
C32_PlaceholderForEveryUnusedChannel ==
    Made("create_placeholders") =>
        /\ ~result.raised
        /\ result.placeholders = ConfiguredChannels \ call.outputs
        /\ \A c \in ConfiguredChannels :
             (c \in call.outputs) # (c \in result.placeholders)

\* the bytes the last call submitted
Submitted ==
    IF call.op = "send_value_unbuffered"
      THEN value_to_bytes(call.value, call.n_bytes)
      ELSE BufferBytes(enqueued)

\* C33: whatever calls came before, a call that meets no transport error
\* leaves on the wire and in the buffer, in this order, exactly the bytes that
\* were buffered before it followed by the bytes it submitted: over any
\* interleaving the device receives the submitted bytes in submission order,
\* and an unbuffered send writes the buffered bytes before its own
C33_WrittenInSubmissionOrder ==
    [][~result'.raised =>
          BufferBytes(write_buffer) \o Submitted'
              = Joined(transfers') \o BufferBytes(write_buffer')]_vars

\* an unbuffered send wrote another call's buffered bytes, then its own
C33_Witness ==
    /\ call.op = "send_value_unbuffered"
    /\ ~result.raised
    /\ Len(transfers) = 2
    /\ transfers[1].bytes # transfers[2].bytes
    /\ transfers[2].bytes = value_to_bytes(call.value, call.n_bytes)

\* C34: an OutputIntermediateDevice never holds more than one child, and
\* its output is that child; the first add_device sets output to its device,
\* every later add_device raises LabscriptError and leaves child_devices and
\* output as they were
C34_AtMostOneOutput ==
    /\ [](Len(script.child_devices) <= 1 /\ script.output = script.child_devices)
    /\ [][call'.op = "add_device" =>
            IF script.child_devices = <<>>
              THEN /\ ~result'.raised
                   /\ script'.child_devices = << call'.device >>
                   /\ script'.output = << call'.device >>
              ELSE /\ result'.raised
                   /\ script'.child_devices = script.child_devices
                   /\ script'.output = script.output]_vars

\* add_device of a second, different device was refused
C34_Witness ==
    /\ call.op = "add_device"
    /\ result.raised
    /\ script.output # << call.device >>
    /\ Len(script.child_devices) = 1

\* C36: after any sequence of wait calls, those that raise included, waits
\* and wait_times have the same length and the i-th wait time is
\* at_time * clock_limit of the call that declared the i-th wait record
C36_WaitTimesMatchWaits ==
    /\ Len(script.waits) = Len(script.wait_times)
    /\ \A i \in 1..Len(script.waits) :
         /\ i <= Len(script.wait_times)
         /\ script.wait_times[i] = script.at_times[i] * clock_limit

\* C37: for any number n of declared waits the step of generate_code that
\* persists them raises nothing and leaves n wait records and, when a wait
\* was declared, exactly one wait-times array that holds the times in the
\* order of declaration
C37_WaitsPersisted ==
    script.file.persisted =>
        /\ ~script.file.raised
        /\ Len(script.file.waits) = Len(script.waits)
        /\ \A i \in 1..Len(script.waits) :
             i <= Len(script.file.waits) => script.file.waits[i][2] = script.waits[i]
        /\ script.wait_times # <<>> =>
             /\ Len(script.file.wait_times) = 1
             /\ script.file.wait_times[1][2] = script.wait_times

\* the place of a frame in a shot: the repeat frame, a pseudoclock frame, an
\* analog data frame, a wait frame, the wait-times frame
Stage(frame) ==
    LET mode == frame[1][1]
    IN  IF mode = FPGAModes.repeat THEN 0
        ELSE IF mode = FPGAModes.pseudoclock THEN 1
        ELSE IF mode = FPGAModes.data THEN 2
        ELSE IF mode = FPGAModes.wait_times THEN 4
        ELSE 3

\* the frames of a sequence that belong to a stage, in their order
FramesOfStage(frames, stage) == SelectSeq(frames, LAMBDA f : Stage(f) = stage)

\* C35: a transition_to_buffered that succeeds has written, in this order,
\* the repeat frame, the pseudoclock frames it emitted, the analog data
\* frames it emitted, the wait frames in the order of declaration and the
\* wait-times frame; the repeat frame is there in every shot, whatever the
\* smart cache holds, and write_buffer is empty when the call returns
C35_FrameOrderOfAShot ==
    (call.op = "transition_to_buffered" /\ ~result.raised) =>
        /\ written # <<>>
        /\ written[1] = send_repeats_and_period(ShotReps, ShotPeriod)
        /\ Len(FramesOfStage(written, 0)) = 1
        /\ \A i, j \in 1..Len(written) : i < j => Stage(written[i]) <= Stage(written[j])
        /\ FramesOfStage(written, 3) = WaitFrames(call.shot.waits)
        /\ Len(FramesOfStage(written, 4)) <= 1
        /\ written = enqueued
        /\ write_buffer = <<>>

\* a shot sent over a cache that held clocks already wrote frames of all
\* five stages
C35_Witness ==
    /\ call.op = "transition_to_buffered"
    /\ ~result.raised
    /\ cached_before.clocks # {}
    /\ \A stage \in 0..4 : FramesOfStage(written, stage) # <<>>

\* C38: a program_manual that follows a successful program_manual with the
\* same requested values, the output ranges unchanged, enqueues no realtime
\* frame, whatever the values: also for an analog value the quantizer coerces
C38_ProgramManualTwice ==
    [][(/\ call.op = "program_manual"
        /\ ~result.raised
        /\ call'.op = "program_manual"
        /\ call'.values = call.values
        /\ analog_properties' = analog_properties)
          => enqueued' = <<>>]_vars

\* two instruction lists differ at most in the reps of their first
\* instruction
SameButFirstReps(before, after) ==
    /\ Len(after) = Len(before)
    /\ \A i \in 1..Len(before) :
         /\ after[i].step = before[i].step
         /\ i > 1 => after[i].reps = before[i].reps

\* C39: convert_to_clocks_and_toggles changes the list it is given only in
\* the reps of the first instruction, which it decrements by one when it
\* encodes a digital output (it changes nothing for another output); encoding
\* the same list of a digital output a second time therefore returns the same
\* ticks but for the second, which has one toggle fewer
C39_FirstRepsDecrementedInPlace ==
    (call.op = "convert_to_clocks_and_toggles" /\ result # NoResult) =>
        LET before == IF "again" \in DOMAIN result THEN result.first_clock ELSE call.clock
            digital == call.output.is_digital /\ call.clock # <<>>
        IN  /\ SameButFirstReps(before, result.clock)
            /\ digital => result.clock[1].reps = before[1].reps - 1
            /\ ~digital => result.clock = before
            /\ ("again" \in DOMAIN result /\ digital) =>
                 /\ Len(result.again) = Len(result.returned)
                 /\ result.again[2].toggles = result.returned[2].toggles - 1
                 /\ \A i \in 1..Len(result.again) :
                      /\ result.again[i].n_clocks = result.returned[i].n_clocks
                      /\ i # 2 => result.again[i].toggles = result.returned[i].toggles

\* a list of two instructions of a digital output was encoded twice
C39_Witness ==
    /\ call.op = "convert_to_clocks_and_toggles"
    /\ result # NoResult
    /\ "again" \in DOMAIN result
    /\ call.output.is_digital
    /\ Len(call.clock) = 2
    /\ result.again # result.returned

\* the calls of a function that are under way
Depth(fn) == Cardinality({k \in 1..Len(stack) : stack[k].fn = fn})

\* C40: every call of send_buffer, send_value or send_bytes returns (or
\* raises), for every buffer and chunk size; at most two calls of
\* send_buffer are ever under way, the one that emptied write_buffer and,
\* below the send_bytes it made, one that finds the buffer empty
C40_SendCallsTerminate ==
    /\ [](/\ Depth("send_buffer") <= 2
          /\ Depth("send_bytes") <= 2
          /\ Depth("send_buffer") = 2 => write_buffer = <<>>)
    /\ (stack # <<>>) ~> (stack = <<>>)

\* an unbuffered send_value over a filled buffer: its send_buffer called
\* send_bytes, which called send_buffer again
C40_Witness ==
    /\ Len(stack) = 4
    /\ stack[1].fn = "send_value"
    /\ Depth("send_buffer") = 2
    /\ stack[2].byte_sequence # <<>>

====
